---- MODULE Spec2Model ----
(***************************************************************************)
(* Multi-account routing and rate-limit-aware failover of anti-api:        *)
(* the antigravity AccountManager (account store, rate-limit bookkeeping,  *)
(* account selection), the rate-limit classifier and the flow / account    *)
(* router.  Times are epoch milliseconds.                                  *)
(***************************************************************************)
EXTENDS Integers, Sequences, FiniteSets, TLC

VARIABLES
    now,              \* Date.now()
    order,            \* keys of AccountManager.accounts, in Map insertion order
    objs,             \* the Account object stored (or last stored) under each id
    currentIndex,     \* AccountManager.currentIndex (0-based)
    lastUsedAccount,  \* AccountManager.lastUsedAccount: NoLastUsed or [accountId, timestamp]
    probeCalls,       \* number of fetchAntigravityModels calls made so far
    gna,              \* the frame of the getNextAvailableAccount call in flight (IdleFrame if none)
    sticky,           \* the router's sticky cursor of each flow: NoSticky or [lastIndex, lastAccountId]
    flowCursor,       \* the router's raw positional cursor of each flow (0-based)
    upstream,         \* how the completion function currently answers for each account:
                      \* "ok", "lastOne" (one more success, then out of quota), "quota",
                      \* "quotaRetry" (429 with a Retry-After), "notFound", "forbidden"
    authStore,        \* the auth store's rate-limit expiry of each codex / copilot account
    locks,            \* the promise chain of each lock: the acquisitions made, in order
    lastCall,         \* RateLimiter.lastCall (NULL before the first call)
    dataFile,         \* ~/.anti-api/accounts.json: NoFile or the accounts array written last
    ide,              \* the Antigravity IDE: its process, its state.vscdb, the logout call in flight
    routing,          \* the routing configuration: flows and account routes, with their entries
    panel,            \* the module state of routes/routing/route.ts and its syncs in flight
    dynamicModels,    \* the dynamic model lists of services/routing/models
    steps,            \* number of operations started so far (bounds the run)
    last              \* the operation completed by the latest step, with its inputs and result

vars == <<now, order, objs, currentIndex, lastUsedAccount, probeCalls, gna, sticky, flowCursor,
          upstream, authStore, locks, lastCall, dataFile, ide, routing, panel, dynamicModels,
          steps,
          last>>

routerVars == <<sticky, flowCursor, upstream>>

hostVars == <<dataFile, ide, routing, panel, dynamicModels>>

sideVars == <<authStore, locks, lastCall, hostVars>>

----------------------------------------------------------------------------
(* Bounds of the model *)

PoolSize == 2
ChainLen == 3
MaxSteps == 2
MaxRouterSteps == 3

(* The clock starts at an arbitrary positive epoch time. *)
StartNow == 1000000

NULL == -1

AccountIds == 1..ChainLen

TickSteps == {500, 60000}

----------------------------------------------------------------------------
(* JavaScript truthiness of a `number | null` field: null and 0 are falsy.  *)
Truthy(x) == x # NULL /\ x # 0

Max(a, b) == IF a >= b THEN a ELSE b

----------------------------------------------------------------------------
(* Error bodies.  A body is [json, details, message, retryMs]: whether the  *)
(* trimmed text starts with "{" or "[" and parses as JSON, the sequence of  *)
(* error.details[].reason strings, error.message (for a non-JSON body: the  *)
(* whole text), and the retry delay the body states, if any.               *)

(* The cues of parseRateLimitReason that the lower-cased phrase includes.  *)
Cues(p) ==
    CASE p = "QUOTA_EXHAUSTED"          -> {"exhausted", "quota"}
      [] p = "RATE_LIMIT_EXCEEDED"      -> {}
      [] p = "MODEL_CAPACITY_EXHAUSTED" -> {"model_capacity", "capacity", "exhausted"}
      [] p = "Quota exhausted"          -> {"exhausted", "quota"}
      [] p = "Rate limit exceeded"      -> {"rate limit"}
      [] p = "Too Many Requests"        -> {"too many requests"}
      [] p = "Requests per minute"      -> {"per minute"}
      [] p = "No capacity available"    -> {"capacity"}
      [] OTHER                          -> {}

(* errorText.toLowerCase().includes(cue): the raw text of a JSON body holds *)
(* every string of the document.                                            *)
RawCues(body) ==
    Cues(body.message) \cup UNION {Cues(body.details[i]) : i \in 1..Len(body.details)}

parseRateLimitReason(statusCode, body) ==
    IF statusCode # 429
    THEN IF statusCode >= 500 THEN "server_error" ELSE "unknown"
    ELSE LET reason == IF body.json /\ Len(body.details) > 0 THEN body.details[1] ELSE ""
             msg == IF body.json THEN Cues(body.message) ELSE {}
             raw == RawCues(body)
         IN  IF reason = "QUOTA_EXHAUSTED" THEN "quota_exhausted"
             ELSE IF reason = "RATE_LIMIT_EXCEEDED" THEN "rate_limit_exceeded"
             ELSE IF reason = "MODEL_CAPACITY_EXHAUSTED" THEN "model_capacity_exhausted"
             ELSE IF msg \cap {"per minute", "rate limit"} # {} THEN "rate_limit_exceeded"
             ELSE IF raw \cap {"per minute", "rate limit", "too many requests"} # {}
                  THEN "rate_limit_exceeded"
             ELSE IF raw \cap {"model_capacity", "capacity"} # {}
                  THEN "model_capacity_exhausted"
             ELSE IF raw \cap {"exhausted", "quota"} # {} THEN "quota_exhausted"
             ELSE "unknown"

defaultRateLimitMs(reason, failures) ==
    CASE reason = "quota_exhausted" ->
            IF failures <= 1 THEN 60000
            ELSE IF failures = 2 THEN 5 * 60000
            ELSE IF failures = 3 THEN 30 * 60000
            ELSE 2 * 60 * 60000
      [] reason = "rate_limit_exceeded"      -> 30000
      [] reason = "model_capacity_exhausted" -> 15000
      [] reason = "server_error"             -> 20000
      [] OTHER                               -> 60000

(* parseRetryDelay(errorText, retryAfterHeader): the explicit retry delay   *)
(* in ms, from the body or from the Retry-After header (seconds), or null.  *)
parseRetryDelay(body, retryAfterHeader) ==
    IF body.retryMs # NULL THEN body.retryMs
    ELSE IF retryAfterHeader # NULL THEN retryAfterHeader * 1000
    ELSE NULL

----------------------------------------------------------------------------
(* The account store *)

Account(id, expiresAt, projectId) ==
    [id |-> id, expiresAt |-> expiresAt, projectId |-> projectId,
     rateLimitedUntil |-> NULL, consecutiveFailures |-> 0]

(* this.accounts.has(id) / this.accounts.get(id) *)
Has(id) == \E i \in 1..Len(order) : order[i] = id

(* Array.from(this.accounts.values()) *)
accountList == order

NoLastUsed == [accountId |-> 0, timestamp |-> NULL]

IdleFrame == [pc |-> "idle"]

Flows == {"flow-head"}

NoSticky == [lastIndex |-> NULL, lastAccountId |-> 0]

OtherProviders == {"codex", "copilot"}

Providers == {"antigravity"} \cup OtherProviders

(* The names of the locks: the global RateLimiter and one per account. *)
LockNames == {0} \cup AccountIds

(* accounts.json does not exist. *)
NoFile == [exists |-> FALSE, accounts |-> <<>>]

(* A routing configuration without flows and without account routes. *)
NoRouting == [flows |-> <<>>, routes |-> <<>>]

(* route.ts before its first request. *)
PanelIdle == [pc |-> "idle"]

(* No dynamic model list has been set. *)
NoDynamic == [copilot |-> <<>>, codex |-> <<>>, copilotByAccount |-> <<>>, codexByAccount |-> <<>>]

(* No IDE database, no IDE process, no logout call. *)
NoIde == [pc |-> "idle"]

(* No auth-store rate limit, no lock ever acquired, no file written. *)
SideIdle ==
    /\ ide = NoIde
    /\ authStore = [p \in OtherProviders |-> [id \in AccountIds |-> NULL]]
    /\ locks = [l \in LockNames |-> <<>>]
    /\ lastCall = NULL
    /\ dataFile = NoFile
    /\ routing = NoRouting
    /\ panel = PanelIdle
    /\ dynamicModels = NoDynamic

(* The router before its first request, every account answering normally. *)
RouterIdle ==
    /\ sticky = [f \in Flows |-> NoSticky]
    /\ flowCursor = [f \in Flows |-> 0]
    /\ upstream = [id \in AccountIds |-> "ok"]

(* isAccountRateLimited(accountId): rateLimitedUntil > now *)
isAccountRateLimited(id) ==
    Has(id) /\ Truthy(objs[id].rateLimitedUntil) /\ objs[id].rateLimitedUntil > now

----------------------------------------------------------------------------
(* Rate-limit bookkeeping *)

NoResult == [reason |-> "null", durationMs |-> 0]

(* The body of markRateLimitedFromError for a known account `acc` at time  *)
(* t: the value returned and the account as it is left.                    *)
MarkFromErrorNoShortcut(acc, statusCode, body, retryAfterHeader, t) ==
    LET reason == parseRateLimitReason(statusCode, body)
        retryDelayMs == parseRetryDelay(body, retryAfterHeader)
        failures == acc.consecutiveFailures + 1
        durationMs == IF retryDelayMs # NULL THEN Max(retryDelayMs + 500, 2000)
                      ELSE defaultRateLimitMs(reason, failures)
    IN  [result |-> [reason |-> reason, durationMs |-> durationMs],
         account |-> [acc EXCEPT !.consecutiveFailures = failures,
                                 !.rateLimitedUntil = t + durationMs]]

(* markRateLimitedFromError with the explicit retry delay ignored *)
MarkFromErrorIgnoresRetry(acc, statusCode, body, retryAfterHeader, t) ==
    LET reason == parseRateLimitReason(statusCode, body)
        failures == acc.consecutiveFailures + 1
        durationMs == defaultRateLimitMs(reason, failures)
    IN  [result |-> [reason |-> reason, durationMs |-> durationMs],
         account |-> [acc EXCEPT !.consecutiveFailures = failures,
                                 !.rateLimitedUntil = t + durationMs]]

MarkFromError(acc, statusCode, body, retryAfterHeader, t) ==
    LET reason == parseRateLimitReason(statusCode, body)
        retryDelayMs == parseRetryDelay(body, retryAfterHeader)
        failures == acc.consecutiveFailures + 1
        counted == [acc EXCEPT !.consecutiveFailures = failures]
    IN  IF retryDelayMs # NULL
        THEN LET durationMs == Max(retryDelayMs + 500, 2000)
             IN  [result |-> [reason |-> reason, durationMs |-> durationMs],
                  account |-> [counted EXCEPT !.rateLimitedUntil = t + durationMs]]
        ELSE IF statusCode = 429
        THEN \* returns before `account.rateLimitedUntil = rateLimitedUntil`
             [result |-> [reason |-> "rate_limit_exceeded", durationMs |-> 5000],
              account |-> counted]
        ELSE LET durationMs == defaultRateLimitMs(reason, failures)
             IN  [result |-> [reason |-> reason, durationMs |-> durationMs],
                  account |-> [counted EXCEPT !.rateLimitedUntil = t + durationMs]]

(* The upstream errors the model enumerates: [statusCode, body,           *)
(* retryAfterHeader].                                                     *)
Body(json, details, message, retryMs) ==
    [json |-> json, details |-> details, message |-> message, retryMs |-> retryMs]

quotaErrorBody == Body(TRUE, <<"QUOTA_EXHAUSTED">>, "Quota exhausted", NULL)

Errors ==
    { [statusCode |-> 429, body |-> quotaErrorBody, retryAfterHeader |-> NULL],
      [statusCode |-> 429, body |-> Body(TRUE, <<"QUOTA_EXHAUSTED">>, "Quota exhausted", 1000),
       retryAfterHeader |-> NULL],
      [statusCode |-> 429, body |-> Body(TRUE, <<"RATE_LIMIT_EXCEEDED">>, "", NULL),
       retryAfterHeader |-> NULL],
      [statusCode |-> 429, body |-> Body(TRUE, <<"MODEL_CAPACITY_EXHAUSTED">>, "", NULL),
       retryAfterHeader |-> NULL],
      [statusCode |-> 429, body |-> Body(FALSE, <<>>, "Too Many Requests", NULL),
       retryAfterHeader |-> NULL],
      [statusCode |-> 429, body |-> Body(FALSE, <<>>, "", NULL), retryAfterHeader |-> NULL],
      [statusCode |-> 429, body |-> Body(FALSE, <<>>, "", NULL), retryAfterHeader |-> 30],
      [statusCode |-> 500, body |-> Body(FALSE, <<>>, "", NULL), retryAfterHeader |-> NULL],
      [statusCode |-> 503, body |-> Body(FALSE, <<>>, "", NULL), retryAfterHeader |-> 30],
      [statusCode |-> 404, body |-> Body(FALSE, <<>>, "not found", NULL),
       retryAfterHeader |-> NULL] }

markRateLimitedFromError(accountId, statusCode, body, retryAfterHeader) ==
    /\ IF Has(accountId)
       THEN LET r == MarkFromError(objs[accountId], statusCode, body, retryAfterHeader, now)
            IN  /\ objs' = [objs EXCEPT ![accountId] = r.account]
                /\ last' = [op |-> "markRateLimitedFromError", accountId |-> accountId,
                            statusCode |-> statusCode, body |-> body,
                            retryAfterHeader |-> retryAfterHeader, at |-> now,
                            before |-> objs[accountId], probes |-> probeCalls,
                            result |-> r.result]
       ELSE /\ objs' = objs
            /\ last' = [op |-> "markRateLimitedFromError", accountId |-> accountId,
                        statusCode |-> statusCode, body |-> body,
                        retryAfterHeader |-> retryAfterHeader, at |-> now,
                        before |-> objs[accountId], probes |-> probeCalls,
                        result |-> NoResult]
    /\ UNCHANGED <<now, order, currentIndex, lastUsedAccount, probeCalls, gna, routerVars, sideVars>>

markRateLimited(accountId, durationMs) ==
    /\ IF Has(accountId)
       THEN objs' = [objs EXCEPT ![accountId].rateLimitedUntil = now + durationMs,
                                ![accountId].consecutiveFailures = @ + 1]
       ELSE objs' = objs
    /\ last' = [op |-> "markRateLimited", accountId |-> accountId,
                durationMs |-> durationMs, at |-> now]
    /\ UNCHANGED <<now, order, currentIndex, lastUsedAccount, probeCalls, gna, routerVars, sideVars>>

markSuccess(accountId) ==
    /\ IF Has(accountId)
       THEN objs' = [objs EXCEPT ![accountId].rateLimitedUntil = NULL,
                                ![accountId].consecutiveFailures = 0]
       ELSE objs' = objs
    /\ last' = [op |-> "markSuccess", accountId |-> accountId, at |-> now]
    /\ UNCHANGED <<now, order, currentIndex, lastUsedAccount, probeCalls, gna, routerVars, sideVars>>

----------------------------------------------------------------------------
(* The bookkeeping operations alone, on any set of loaded accounts *)

LoadedOrders == { [i \in 1..k |-> i] : k \in 0..PoolSize }

InitMark ==
    /\ now = StartNow
    /\ order \in LoadedOrders
    /\ objs = [id \in AccountIds |-> Account(id, 0, "p")]
    /\ currentIndex = 0
    /\ lastUsedAccount = NoLastUsed
    /\ probeCalls = 0
    /\ gna = IdleFrame
    /\ RouterIdle
    /\ SideIdle
    /\ steps = 0
    /\ last = [op |-> "init"]

(* One more operation may start. *)
Step == /\ steps < MaxSteps
        /\ steps' = steps + 1

MarkFromErrorStep ==
    \E id \in AccountIds, e \in Errors :
        /\ Step
        /\ markRateLimitedFromError(id, e.statusCode, e.body, e.retryAfterHeader)

MarkRateLimitedStep ==
    \E id \in AccountIds : Step /\ markRateLimited(id, 60000)

MarkSuccessStep ==
    \E id \in AccountIds : Step /\ markSuccess(id)

NextMark == MarkFromErrorStep \/ MarkRateLimitedStep \/ MarkSuccessStep

SpecMark == InitMark /\ [][NextMark]_vars

(* A markRateLimitedFromError call on a known account has just returned. *)
MarkedFromError ==
    /\ last.op = "markRateLimitedFromError"
    /\ Has(last.accountId)
    /\ last.result # NoResult

(* C8: every markRateLimitedFromError call on a known account that returns *)
(* {reason, durationMs} leaves the account rate-limited until               *)
(* now + durationMs, with consecutiveFailures increased by exactly one.     *)
C8_StoredAsReturned ==
    MarkedFromError =>
        /\ objs[last.accountId].rateLimitedUntil = last.at + last.result.durationMs
        /\ isAccountRateLimited(last.accountId)
        /\ objs[last.accountId].consecutiveFailures = last.before.consecutiveFailures + 1

(* The escalation table of the quota_exhausted reason. *)
QuotaLadder(failures) ==
    IF failures <= 1 THEN 60000
    ELSE IF failures = 2 THEN 300000
    ELSE IF failures = 3 THEN 1800000
    ELSE 7200000

(* C9: a 429 classified quota_exhausted with no explicit retry delay is     *)
(* backed off by 60 s, 5 min, 30 min, 2 h on the 1st, 2nd, 3rd, 4th and     *)
(* later consecutive failure.                                               *)
C9_QuotaEscalation ==
    ( /\ MarkedFromError
      /\ last.statusCode = 429
      /\ parseRateLimitReason(last.statusCode, last.body) = "quota_exhausted"
      /\ parseRetryDelay(last.body, last.retryAfterHeader) = NULL )
    => /\ last.result.reason = "quota_exhausted"
       /\ last.result.durationMs = QuotaLadder(objs[last.accountId].consecutiveFailures)

(* A 429 with no explicit retry delay and no classified reason. *)
Bare429 ==
    /\ MarkedFromError
    /\ last.statusCode = 429
    /\ parseRetryDelay(last.body, last.retryAfterHeader) = NULL
    /\ parseRateLimitReason(last.statusCode, last.body) = "unknown"

(* C10: a bare 429 is reported as {rate_limit_exceeded, 5000} and handling  *)
(* it makes no quota-probe call.                                            *)
C10_Bare429Shortcut ==
    Bare429 =>
        /\ last.result = [reason |-> "rate_limit_exceeded", durationMs |-> 5000]
        /\ probeCalls = last.probes

C10_Witness ==
    /\ Bare429
    /\ last.body = Body(FALSE, <<>>, "", NULL)
    /\ last.result.durationMs = 5000
    /\ last.before.consecutiveFailures > 0

(* C11: whenever an explicit retry delay is present, in the Retry-After     *)
(* header or in the body, the backoff returned and stored is exactly        *)
(* max(retryMs + 500, 2000), whatever the classified reason and the         *)
(* number of consecutive failures.                                          *)
C11_RetryAfterOverride ==
    (MarkedFromError /\ parseRetryDelay(last.body, last.retryAfterHeader) # NULL) =>
        LET retryMs == parseRetryDelay(last.body, last.retryAfterHeader)
        IN  /\ last.result.durationMs = Max(retryMs + 500, 2000)
            /\ last.result.reason = parseRateLimitReason(last.statusCode, last.body)
            /\ objs[last.accountId].rateLimitedUntil = last.at + Max(retryMs + 500, 2000)

C11_Witness ==
    /\ MarkedFromError
    /\ last.statusCode = 503
    /\ last.retryAfterHeader = 30
    /\ last.before.consecutiveFailures > 0
    /\ last.result.durationMs = 30500

----------------------------------------------------------------------------
(* The classifier alone: parseRateLimitReason applied to a status code and *)
(* an error text.                                                          *)

(* The reason strings of error.details[] (a detail without a known reason, *)
(* such as a RetryInfo or a Help entry, is "OTHER") and the texts of       *)
(* error.message or of a body that is not JSON.                            *)
DetailReasons == {"QUOTA_EXHAUSTED", "RATE_LIMIT_EXCEEDED", "MODEL_CAPACITY_EXHAUSTED", "OTHER"}

ErrorTexts ==
    {"", "Quota exhausted", "Rate limit exceeded", "Too Many Requests", "Requests per minute",
     "No capacity available", "not found"}

ErrorBodies ==
    { Body(TRUE, d, m, NULL) : d \in UNION {[1..n -> DetailReasons] : n \in 0..2},
                              m \in ErrorTexts }
    \cup { Body(FALSE, <<>>, m, NULL) : m \in ErrorTexts }

StatusCodes == {400, 404, 429, 499, 500, 503}

InitClassify ==
    /\ now = StartNow
    /\ order = <<>>
    /\ objs = [id \in AccountIds |-> Account(id, 0, "p")]
    /\ currentIndex = 0
    /\ lastUsedAccount = NoLastUsed
    /\ probeCalls = 0
    /\ gna = IdleFrame
    /\ RouterIdle
    /\ SideIdle
    /\ steps = 0
    /\ \E statusCode \in StatusCodes, body \in ErrorBodies :
          last = [op |-> "error", statusCode |-> statusCode, body |-> body]

ClassifyStep ==
    /\ last.op = "error"
    /\ last' = [op |-> "parseRateLimitReason", statusCode |-> last.statusCode,
                body |-> last.body,
                reason |-> parseRateLimitReason(last.statusCode, last.body)]
    /\ UNCHANGED <<now, order, objs, currentIndex, lastUsedAccount, probeCalls, gna, steps,
                   routerVars, sideVars>>

NextClassify == ClassifyStep

SpecClassify == InitClassify /\ [][NextClassify]_vars

(* The reasons the classifier knows among error.details[].reason *)
KnownReasons == {"QUOTA_EXHAUSTED", "RATE_LIMIT_EXCEEDED", "MODEL_CAPACITY_EXHAUSTED"}

ReasonOf(name) ==
    CASE name = "QUOTA_EXHAUSTED" -> "quota_exhausted"
      [] name = "RATE_LIMIT_EXCEEDED" -> "rate_limit_exceeded"
      [] name = "MODEL_CAPACITY_EXHAUSTED" -> "model_capacity_exhausted"
      [] OTHER -> "unknown"

(* The case-insensitive search of the raw body, in its priority order *)
RawSearch(body) ==
    IF RawCues(body) \cap {"per minute", "rate limit", "too many requests"} # {}
    THEN "rate_limit_exceeded"
    ELSE IF RawCues(body) \cap {"model_capacity", "capacity"} # {}
    THEN "model_capacity_exhausted"
    ELSE IF RawCues(body) \cap {"exhausted", "quota"} # {} THEN "quota_exhausted"
    ELSE "unknown"

(* The reason of a 429 whose details are read at the indices `upTo` allows *)
StatedReason(body, upTo) ==
    LET named == {i \in 1..Len(body.details) :
                     body.json /\ i <= upTo /\ body.details[i] \in KnownReasons}
    IN  IF named # {}
        THEN ReasonOf(body.details[CHOOSE i \in named : \A j \in named : i <= j])
        ELSE IF body.json /\ Cues(body.message) \cap {"per minute", "rate limit"} # {}
        THEN "rate_limit_exceeded"
        ELSE RawSearch(body)

(* C32: a status other than 429 yields server_error from 500 on and        *)
(* unknown below; a 429 yields the known reason that error.details[] names *)
(* at any index, else rate_limit_exceeded on a cue of error.message, else  *)
(* the result of the raw-body search in its priority order, else unknown.  *)
C32_ClassifierReason ==
    last.op = "parseRateLimitReason" =>
        last.reason = IF last.statusCode # 429
                      THEN (IF last.statusCode >= 500 THEN "server_error" ELSE "unknown")
                      ELSE StatedReason(last.body, Len(last.body.details))

(* The same with error.details read at its first index only, as the code   *)
(* reads it.                                                               *)
ClassifierReasonFirstDetail ==
    last.op = "parseRateLimitReason" =>
        last.reason = IF last.statusCode # 429
                      THEN (IF last.statusCode >= 500 THEN "server_error" ELSE "unknown")
                      ELSE StatedReason(last.body, 1)

----------------------------------------------------------------------------
(* getNextAvailableAccount.  The call runs from one await to the next in   *)
(* one step; other operations interleave at the awaits (token refresh,     *)
(* project-id lookup, the 500 ms timer, quota probe).  The frame holds the *)
(* call's locals: now (now0), accountList (list), attempts, the account    *)
(* being processed (acc), bestAccount (best) and the probe loop's index.   *)

STICKY_WINDOW_MS == 60000
SHORT_WAIT_MS == 2000
SYNC_WAIT_MS == 500
REFRESH_FAILED_MS == 60000
RESET_TIME_BUFFER_MS == 2000

(* tokens.expiresIn of a refreshed token, in seconds *)
ExpiresIn == 3600

(* account.expiresAt > 0 && now > account.expiresAt - 5 * 60 * 1000 *)
needsRefresh(acc, t) == acc.expiresAt > 0 /\ t > acc.expiresAt - 5 * 60 * 1000

(* account.rateLimitedUntil && account.rateLimitedUntil > now *)
limitedAt(acc, t) == Truthy(acc.rateLimitedUntil) /\ acc.rateLimitedUntil > t

(* account.projectId && account.projectId !== "unknown"; "none" is null *)
projectResolved(acc) == acc.projectId # "none" /\ acc.projectId # "unknown"

(* The scan loop from cursor idx with `attempts` made, up to its next      *)
(* await, its return or its end.                                           *)
RECURSIVE Scan(_, _, _, _, _, _)
Scan(idx, attempts, force, L, O, t0) ==
    IF attempts >= Len(L)
    THEN [kind |-> "exhausted", idx |-> idx, attempts |-> attempts, acc |-> 0]
    ELSE LET i == IF force \/ attempts > 0 THEN (idx + 1) % Len(L) ELSE idx
         IN  IF i >= Len(L)
             THEN \* accountList[i] is undefined: reading its field throws
                  [kind |-> "throw", idx |-> i, attempts |-> attempts, acc |-> 0]
             ELSE LET a == L[i + 1]
                  IN  IF limitedAt(O[a], t0)
                      THEN Scan(i, attempts + 1, force, L, O, t0)
                      ELSE IF needsRefresh(O[a], t0)
                      THEN [kind |-> "refresh", idx |-> i, attempts |-> attempts, acc |-> a]
                      ELSE [kind |-> "found", idx |-> i, attempts |-> attempts, acc |-> a]

(* bestAccount and minWaitMs over accountList[k..] *)
RECURSIVE Best(_, _, _, _, _)
Best(L, O, t0, k, cur) ==
    IF k > Len(L) THEN cur
    ELSE LET a == L[k]
         IN  IF ~Truthy(O[a].rateLimitedUntil)
             THEN [acc |-> a, wait |-> 0]
             ELSE LET w == Max(O[a].rateLimitedUntil - t0, 0)
                  IN  IF cur.wait = NULL \/ w < cur.wait
                      THEN Best(L, O, t0, k + 1, [acc |-> a, wait |-> w])
                      ELSE Best(L, O, t0, k + 1, cur)

(* accountList.find(acc => !acc.rateLimitedUntil || acc.rateLimitedUntil <= Date.now()) *)
Refreshed(L, O, t) ==
    LET ok == {k \in 1..Len(L) : ~Truthy(O[L[k]].rateLimitedUntil) \/ O[L[k]].rateLimitedUntil <= t}
    IN  IF ok = {} THEN 0 ELSE L[CHOOSE k \in ok : \A j \in ok : k <= j]

Awaiting == [op |-> "await"]

(* The call returns (outcome "account" or "null") or throws. *)
Return(f, O, outcome, a, path) ==
    /\ objs' = O
    /\ gna' = IdleFrame
    /\ last' = [op |-> "getNextAvailableAccount", outcome |-> outcome, accountId |-> a,
                path |-> path, forceRotate |-> f.forceRotate, startedAt |-> f.now0,
                list |-> f.list, pre |-> f.pre, cursor0 |-> f.cursor0,
                sleeps |-> f.sleeps, resets |-> f.resets, probed |-> f.probed,
                lastUsed0 |-> f.lastUsed0, refreshFailed |-> f.refreshFailed,
                refreshCalls |-> f.refreshCalls, sleepStart |-> f.sleepStart, at |-> now,
                projectId |-> IF outcome # "account" THEN "none"
                              ELSE IF path \in {"refreshed", "reset"} /\ O[a].projectId = "none"
                              THEN "unknown" ELSE O[a].projectId]

(* projectId: await this.ensureProjectId(account), then return *)
EnsureProject(f, O, a, pcNext, path) ==
    IF projectResolved(O[a])
    THEN Return(f, O, "account", a, path)
    ELSE /\ objs' = O
         /\ gna' = [f EXCEPT !.pc = pcNext, !.acc = a, !.path = path]
         /\ last' = Awaiting

(* All accounts rate limited, and the call waiting whatever the wait is *)
AllLimitedAlwaysWaits(f, O) ==
    LET b == Best(f.list, O, f.now0, 1, [acc |-> f.list[1], wait |-> NULL])
    IN  /\ objs' = O
        /\ last' = Awaiting
        /\ gna' = [f EXCEPT !.pc = "sleep", !.best = b.acc, !.sleepStart = now,
                            !.sleeps = @ + 1]

(* All accounts rate limited, and the call probing whatever the wait is *)
AllLimitedAlwaysProbes(f, O) ==
    /\ objs' = O
    /\ last' = Awaiting
    /\ gna' = [f EXCEPT !.pc = "probe", !.probeIdx = 1]

(* All accounts are rate limited *)
AllLimited(f, O) ==
    LET b == Best(f.list, O, f.now0, 1, [acc |-> f.list[1], wait |-> NULL])
    IN  /\ objs' = O
        /\ last' = Awaiting
        /\ IF b.wait <= SHORT_WAIT_MS
           THEN gna' = [f EXCEPT !.pc = "sleep", !.best = b.acc, !.sleepStart = now,
                                 !.sleeps = @ + 1]
           ELSE gna' = [f EXCEPT !.pc = "probe", !.probeIdx = 1]

RunScan(f, idx, attempts, O) ==
    LET r == Scan(idx, attempts, f.forceRotate, f.list, O, f.now0)
    IN  /\ currentIndex' = r.idx
        /\ CASE r.kind = "throw" ->
                    /\ UNCHANGED lastUsedAccount
                    /\ Return(f, O, "throw", 0, "scan")
              [] r.kind = "found" ->
                    /\ lastUsedAccount' = [accountId |-> r.acc, timestamp |-> now]
                    /\ EnsureProject(f, O, r.acc, "scanProject", "scan")
              [] r.kind = "refresh" ->
                    /\ UNCHANGED lastUsedAccount
                    /\ objs' = O
                    /\ gna' = [f EXCEPT !.pc = "scanRefresh", !.acc = r.acc,
                                        !.attempts = r.attempts]
                    /\ last' = Awaiting
              [] OTHER ->
                    /\ UNCHANGED lastUsedAccount
                    /\ AllLimited(f, O)

(* The sticky test without its 60 s window *)
StickyIgnoresWindow(force) ==
    /\ ~force
    /\ lastUsedAccount # NoLastUsed
    /\ Has(lastUsedAccount.accountId)
    /\ ~limitedAt(objs[lastUsedAccount.accountId], now)

(* The sticky test without its forceRotate guard *)
StickyIgnoresForce(force) ==
    /\ lastUsedAccount # NoLastUsed
    /\ now - lastUsedAccount.timestamp < STICKY_WINDOW_MS
    /\ Has(lastUsedAccount.accountId)
    /\ ~limitedAt(objs[lastUsedAccount.accountId], now)

StickyApplies(force) ==
    /\ ~force
    /\ lastUsedAccount # NoLastUsed
    /\ now - lastUsedAccount.timestamp < STICKY_WINDOW_MS
    /\ Has(lastUsedAccount.accountId)
    /\ ~limitedAt(objs[lastUsedAccount.accountId], now)

GnaStart(force) ==
    /\ gna.pc = "idle"
    /\ Step
    /\ UNCHANGED <<now, order, probeCalls, routerVars, sideVars>>
    /\ LET f == [pc |-> "start", forceRotate |-> force, now0 |-> now, list |-> accountList,
                 pre |-> [id \in AccountIds |-> objs[id].rateLimitedUntil], cursor0 |-> currentIndex, acc |-> 0, attempts |-> 0,
                 best |-> 0, probeIdx |-> 0, sleepStart |-> NULL, sleeps |-> 0,
                 resets |-> 0, probed |-> <<>>, path |-> "none",
                 lastUsed0 |-> lastUsedAccount, refreshFailed |-> {}, refreshCalls |-> <<>>]
       IN  IF Len(accountList) = 0
           THEN /\ UNCHANGED <<currentIndex, lastUsedAccount>>
                /\ Return(f, objs, "null", 0, "empty")
           ELSE IF StickyApplies(force)
           THEN /\ UNCHANGED <<currentIndex, lastUsedAccount>>
                /\ IF needsRefresh(objs[lastUsedAccount.accountId], now)
                   THEN /\ objs' = objs
                        /\ gna' = [f EXCEPT !.pc = "stickyRefresh",
                                            !.acc = lastUsedAccount.accountId]
                        /\ last' = Awaiting
                   ELSE EnsureProject(f, objs, lastUsedAccount.accountId,
                                      "stickyProject", "sticky")
           ELSE RunScan(f, currentIndex, 0, objs)

(* refreshAccessToken resolves (ok) or rejects *)
GnaRefreshDone(ok) ==
    /\ gna.pc \in {"stickyRefresh", "scanRefresh"}
    /\ UNCHANGED <<now, order, probeCalls, steps, routerVars, sideVars>>
    /\ LET a == gna.acc
           fresh == [objs EXCEPT ![a].expiresAt = gna.now0 + ExpiresIn * 1000]
           called == [gna EXCEPT !.refreshCalls = Append(@, a)]
           failed == [called EXCEPT !.refreshFailed = @ \cup {a}]
       IN  IF gna.pc = "stickyRefresh"
           THEN /\ UNCHANGED <<currentIndex, lastUsedAccount>>
                /\ IF ok
                   THEN EnsureProject(called, fresh, a, "stickyProject", "sticky")
                   ELSE \* caught: the call goes on with the token it has
                        EnsureProject(failed, objs, a, "stickyProject", "sticky")
           ELSE IF ok
           THEN /\ UNCHANGED currentIndex
                /\ lastUsedAccount' = [accountId |-> a, timestamp |-> now]
                /\ EnsureProject(called, fresh, a, "scanProject", "scan")
           ELSE RunScan(failed, currentIndex, gna.attempts + 1,
                        [objs EXCEPT ![a].rateLimitedUntil = gna.now0 + REFRESH_FAILED_MS])

(* getProjectID resolves with an id ("p"), resolves empty, or rejects *)
GnaProjectDone(outcome) ==
    /\ gna.pc \in {"stickyProject", "scanProject", "probeProject"}
    /\ UNCHANGED <<now, order, currentIndex, lastUsedAccount, probeCalls, steps, routerVars, sideVars>>
    /\ LET a == gna.acc
       IN  IF outcome = "throw"
           THEN IF gna.pc = "probeProject"
                THEN \* caught by the probe loop's catch: on to the next account
                     IF gna.probeIdx < Len(gna.list)
                     THEN /\ objs' = objs
                          /\ gna' = [gna EXCEPT !.pc = "probe", !.probeIdx = @ + 1]
                          /\ last' = Awaiting
                     ELSE Return(gna, objs, "null", 0, "exhausted")
                ELSE Return(gna, objs, "throw", 0, gna.path)
           ELSE Return(gna,
                       [objs EXCEPT ![a].projectId = IF outcome = "empty" THEN "mock" ELSE "p"],
                       "account", a, gna.path)

(* The wait that is made a second time before the call goes on *)
GnaWakeSleepsTwice ==
    /\ gna.pc = "sleep"
    /\ now >= gna.sleepStart + SYNC_WAIT_MS
    /\ UNCHANGED <<now, order, currentIndex, lastUsedAccount, probeCalls, steps, routerVars, sideVars>>
    /\ LET refreshed == Refreshed(gna.list, objs, now)
           cleared == [id \in AccountIds |->
                         IF \E k \in 1..Len(gna.list) : gna.list[k] = id
                         THEN [objs[id] EXCEPT !.rateLimitedUntil = NULL,
                                               !.consecutiveFailures = 0]
                         ELSE objs[id]]
       IN  IF gna.sleeps < 2
           THEN /\ objs' = objs
                /\ last' = Awaiting
                /\ gna' = [gna EXCEPT !.sleepStart = now, !.sleeps = @ + 1]
           ELSE IF refreshed # 0
           THEN Return(gna, objs, "account", refreshed, "refreshed")
           ELSE Return([gna EXCEPT !.resets = @ + 1], cleared, "account", gna.best, "reset")

(* the 500 ms timer fires *)
GnaWake ==
    /\ gna.pc = "sleep"
    /\ now >= gna.sleepStart + SYNC_WAIT_MS
    /\ UNCHANGED <<now, order, currentIndex, lastUsedAccount, probeCalls, steps, routerVars, sideVars>>
    /\ LET refreshed == Refreshed(gna.list, objs, now)
           cleared == [id \in AccountIds |->
                         IF \E k \in 1..Len(gna.list) : gna.list[k] = id
                         THEN [objs[id] EXCEPT !.rateLimitedUntil = NULL,
                                               !.consecutiveFailures = 0]
                         ELSE objs[id]]
       IN  IF refreshed # 0
           THEN Return(gna, objs, "account", refreshed, "refreshed")
           ELSE Return([gna EXCEPT !.resets = @ + 1], cleared, "account", gna.best, "reset")

(* The quota reports of fetchAntigravityModels that the model enumerates:  *)
(* the call rejects; some model has remainingFraction > 0; no quota and no *)
(* reset time; no quota and a reset time `reset` ms from now.              *)
ProbeOutcomes ==
    { [kind |-> "throw", reset |-> 0], [kind |-> "quota", reset |-> 0],
      [kind |-> "none", reset |-> 0], [kind |-> "reset", reset |-> 8000],
      [kind |-> "reset", reset |-> 118000] }

(* The probed account keeps the limit it had. *)
keepsEstimate(acc, outcome) == acc

(* The probed account after a report without quota: a reported reset time  *)
(* plus the buffer replaces a rateLimitedUntil that differs from it.        *)
updateLockTime(acc, outcome) ==
    LET newLockTime == now + outcome.reset + RESET_TIME_BUFFER_MS
    IN  IF outcome.kind = "reset" /\ newLockTime # acc.rateLimitedUntil
        THEN [acc EXCEPT !.rateLimitedUntil = newLockTime]
        ELSE acc

GnaProbeDone(outcome) ==
    /\ gna.pc = "probe"
    /\ UNCHANGED <<now, order, currentIndex, lastUsedAccount, steps, routerVars, sideVars>>
    /\ probeCalls' = probeCalls + 1
    /\ LET a == gna.list[gna.probeIdx]
           f == [gna EXCEPT !.probed = Append(@, a)]
           O == [objs EXCEPT ![a] = updateLockTime(objs[a], outcome)]
       IN  IF outcome.kind = "quota"
           THEN EnsureProject(f, [objs EXCEPT ![a].rateLimitedUntil = NULL,
                                              ![a].consecutiveFailures = 0],
                              a, "probeProject", "quota")
           ELSE IF gna.probeIdx < Len(gna.list)
           THEN /\ objs' = O
                /\ gna' = [f EXCEPT !.probeIdx = @ + 1]
                /\ last' = Awaiting
           ELSE Return(f, O, "null", 0, "exhausted")

----------------------------------------------------------------------------
(* The other operations on the account store *)

(* addAccount: Map.set keeps the position of an existing key *)
addAccount(id, expiresAt, projectId) ==
    /\ order' = IF Has(id) THEN order ELSE Append(order, id)
    /\ objs' = [objs EXCEPT ![id] = Account(id, expiresAt, projectId)]
    /\ last' = [op |-> "addAccount", accountId |-> id]
    /\ UNCHANGED <<now, currentIndex, lastUsedAccount, probeCalls, gna, routerVars, sideVars>>

removeAccount(id) ==
    /\ order' = IF Has(id) THEN SelectSeq(order, LAMBDA x : x # id) ELSE order
    /\ last' = [op |-> "removeAccount", accountId |-> id, removed |-> Has(id)]
    /\ UNCHANGED <<now, objs, currentIndex, lastUsedAccount, probeCalls, gna, routerVars, sideVars>>

Tick(d) ==
    /\ Step
    /\ now' = now + d
    /\ last' = IF gna.pc = "idle" THEN [op |-> "tick"] ELSE Awaiting
    /\ UNCHANGED <<order, objs, currentIndex, lastUsedAccount, probeCalls, gna, routerVars, sideVars>>

(* The account objects a call in flight still refers to *)
InFrame(id) == gna.pc # "idle" /\ \E k \in 1..Len(gna.list) : gna.list[k] = id

(* The states of the account store that a call may start in.  Each is      *)
(* reached by the store's operations: rateLimitedUntil values by           *)
(* markRateLimited at earlier times, the cursor by earlier scans and       *)
(* forced rotations (it is never reset when accounts are removed), the     *)
(* last used account by an earlier call.                                   *)
InitUntils == {NULL, StartNow + 400, StartNow + 1500, StartNow + 2000, StartNow + 60000}

InitAccount(id, until, projectId) ==
    [Account(id, 0, projectId) EXCEPT !.rateLimitedUntil = until,
                                      !.consecutiveFailures = IF until = NULL THEN 0 ELSE 1]

InitAM ==
    /\ now = StartNow
    /\ order \in LoadedOrders
    /\ objs \in { [id \in AccountIds |->
                      InitAccount(id, IF id <= PoolSize THEN u[id] ELSE NULL, q)] :
                   u \in [1..PoolSize -> InitUntils], q \in {"p", "none"} }
    /\ currentIndex \in 0..(PoolSize - 1)
    /\ lastUsedAccount = NoLastUsed
    /\ probeCalls = 0
    /\ gna = IdleFrame
    /\ RouterIdle
    /\ SideIdle
    /\ steps = 0
    /\ last = [op |-> "init"]

GetNextStep == \E force \in BOOLEAN : GnaStart(force)

RefreshDoneStep == \E ok \in BOOLEAN : GnaRefreshDone(ok)

ProjectDoneStep == \E outcome \in {"p", "empty", "throw"} : GnaProjectDone(outcome)

ProbeDoneStep == \E outcome \in ProbeOutcomes : GnaProbeDone(outcome)

AMMarkStep ==
    \E id \in AccountIds : Step /\ Has(id) /\ markRateLimited(id, 60000)

AMSuccessStep == \E id \in AccountIds : Step /\ Has(id) /\ markSuccess(id)

AddAccountStep ==
    \E id \in AccountIds : Step /\ ~InFrame(id) /\ addAccount(id, 0, "none")

RemoveAccountStep == \E id \in AccountIds : Step /\ Has(id) /\ removeAccount(id)

TickStep == \E d \in TickSteps : Tick(d)

NextAM ==
    \/ GetNextStep \/ ProjectDoneStep \/ GnaWake \/ ProbeDoneStep
    \/ AMMarkStep \/ AMSuccessStep \/ TickStep

SpecAM == InitAM /\ [][NextAM]_vars

(* A getNextAvailableAccount call has just returned or thrown. *)
GnaReturned == last.op = "getNextAvailableAccount"

InList(id, L) == \E k \in 1..Len(L) : L[k] = id

(* When the call started, every account of the pool was rate-limited with  *)
(* more than 2000 ms left / with at most 2000 ms left.                     *)
AllLimitedLong ==
    /\ GnaReturned
    /\ Len(last.list) > 0
    /\ \A k \in 1..Len(last.list) :
          /\ Truthy(last.pre[last.list[k]])
          /\ last.pre[last.list[k]] - last.startedAt > SHORT_WAIT_MS

AllLimitedShort ==
    /\ GnaReturned
    /\ Len(last.list) > 0
    /\ \A k \in 1..Len(last.list) :
          /\ Truthy(last.pre[last.list[k]])
          /\ last.pre[last.list[k]] > last.startedAt
          /\ last.pre[last.list[k]] - last.startedAt <= SHORT_WAIT_MS

(* The scan read accountList[currentIndex] past the end of the list. *)
CursorPastEnd ==
    /\ last.outcome = "throw"
    /\ last.path = "scan"
    /\ ~last.forceRotate
    /\ last.cursor0 >= Len(last.list)

LoweringAllowed ==
    \/ last'.op = "markSuccess"
    \/ last'.op = "getNextAvailableAccount" /\ last'.path \in {"reset", "quota"}
    \/ gna.pc = "probe" /\ gna'.pc = "probeProject"

(* C12: while an account's rateLimitedUntil is in the future, no operation  *)
(* other than an explicit success, an optimistic reset or a quota check     *)
(* that confirmed available quota lowers or clears it.                      *)
C12_UntilMonotone ==
    [][ \A id \in AccountIds :
          (Has(id) /\ limitedAt(objs[id], now) /\ ~LoweringAllowed)
             => objs'[id].rateLimitedUntil >= objs[id].rateLimitedUntil ]_vars

(* Calls interleaved with addAccount and removeAccount, from a store that  *)
(* holds every account of the pool and whose cursor indexes one of them.   *)
InitRotate == InitAM /\ Len(order) = PoolSize

NextRotate ==
    \/ GetNextStep \/ ProjectDoneStep \/ GnaWake \/ ProbeDoneStep \/ TickStep
    \/ AddAccountStep \/ RemoveAccountStep

SpecRotate == InitRotate /\ [][NextRotate]_vars

(* C37: whatever accounts were added and removed, the scan of               *)
(* getNextAvailableAccount does not read accountList[currentIndex] past    *)
(* the end of the account list.                                            *)
C37_CursorInRange == ~(GnaReturned /\ CursorPastEnd)

(* C38: the account that getNextAvailableAccount returns is, when the call *)
(* returns, in the account store and not rate-limited, whatever other      *)
(* requests did while the call was suspended.                              *)
C38_NoStaleHandOut ==
    (GnaReturned /\ last.outcome = "account") =>
        /\ Has(last.accountId)
        /\ ~limitedAt(objs[last.accountId], now)

(* C33: every credential that getNextAvailableAccount returns carries a    *)
(* resolved project id, neither null nor the literal "unknown", and that   *)
(* value is the one stored on the account.                                 *)
C33_ResolvedProjectId ==
    (GnaReturned /\ last.outcome = "account") =>
        /\ last.projectId \notin {"none", "unknown"}
        /\ objs[last.accountId].projectId = last.projectId

(* The same for the credentials returned by the sticky path, the scan and  *)
(* the quota validation, which go through ensureProjectId.                 *)
ResolvedByEnsureProjectId ==
    (GnaReturned /\ last.outcome = "account" /\ last.path \in {"sticky", "scan", "quota"}) =>
        /\ last.projectId \in {"p", "mock"}
        /\ objs[last.accountId].projectId = last.projectId

----------------------------------------------------------------------------
(* Selection with tokens near expiry and a last used account.  The states  *)
(* a call may start in: expiresAt is 0 (never refreshed) or within five    *)
(* minutes, the last used account was recorded by an earlier scan 1 s or   *)
(* 60 s ago and may have been removed since.                               *)

(* The accounts whose token is near expiry, and likewise those that are   *)
(* rate-limited: none, one, or all.                                       *)
InitExpiring == {{}, 1..PoolSize} \cup {{id} : id \in 1..PoolSize}

InitLastUsed ==
    {NoLastUsed} \cup { [accountId |-> id, timestamp |-> StartNow - d] :
                           id \in {1, PoolSize}, d \in {1000, STICKY_WINDOW_MS} }

InitSelect ==
    /\ now = StartNow
    /\ order \in LoadedOrders
    /\ objs \in { [id \in AccountIds |->
                      [InitAccount(id, IF id <= PoolSize /\ id \in lim
                                       THEN StartNow + 60000 ELSE NULL, "p")
                          EXCEPT !.expiresAt = IF id \in exp THEN StartNow + 60000 ELSE 0]] :
                   lim \in InitExpiring, exp \in InitExpiring }
    /\ currentIndex \in {0, PoolSize - 1}
    /\ lastUsedAccount \in InitLastUsed
    /\ probeCalls = 0
    /\ gna = IdleFrame
    /\ RouterIdle
    /\ SideIdle
    /\ steps = 0
    /\ last = [op |-> "init"]

NextSelect == GetNextStep \/ RefreshDoneStep \/ ProbeDoneStep

SpecSelect == InitSelect /\ [][NextSelect]_vars

(* C15: an account whose token refresh failed during the call is left       *)
(* rate-limited until 60 s after the call's start and is not the account    *)
(* the call returns; the call does not throw, and it returns null only      *)
(* when every account failed its refresh or was rate-limited.               *)
C15_RefreshFailureDegrades ==
    (GnaReturned /\ last.refreshFailed # {}) =>
        /\ last.outcome # "throw"
        /\ \A a \in last.refreshFailed :
              /\ objs[a].rateLimitedUntil = last.startedAt + REFRESH_FAILED_MS
              /\ ~(last.outcome = "account" /\ last.accountId = a)
        /\ last.outcome = "null" =>
              \A k \in 1..Len(last.list) :
                 \/ last.list[k] \in last.refreshFailed
                 \/ (Truthy(last.pre[last.list[k]]) /\ last.pre[last.list[k]] > last.startedAt)

(* The sticky window applied when the call started: an account was          *)
(* recorded as last used less than 60 s before, it is in the store and it   *)
(* was not rate-limited.                                                    *)
StickyAtStart ==
    /\ last.lastUsed0 # NoLastUsed
    /\ last.startedAt - last.lastUsed0.timestamp < STICKY_WINDOW_MS
    /\ InList(last.lastUsed0.accountId, last.list)
    /\ ~( /\ Truthy(last.pre[last.lastUsed0.accountId])
          /\ last.pre[last.lastUsed0.accountId] > last.startedAt )

(* C16: a non-forced call started less than 60 s after the scan recorded an *)
(* account as last used, with that account in the store and not             *)
(* rate-limited, returns that account and leaves the rotation cursor and    *)
(* the record as they were; a forced call, or one started once the 60 s     *)
(* have elapsed or with the account rate-limited or gone, does not take     *)
(* the sticky path.                                                         *)
C16_StickyWindow ==
    GnaReturned =>
        /\ (~last.forceRotate /\ StickyAtStart) =>
              /\ last.outcome = "account"
              /\ last.accountId = last.lastUsed0.accountId
              /\ last.path = "sticky"
              /\ currentIndex = last.cursor0
              /\ lastUsedAccount = last.lastUsed0
        /\ (last.forceRotate \/ ~StickyAtStart) => last.path # "sticky"

C16_Witness ==
    /\ GnaReturned
    /\ ~last.forceRotate
    /\ StickyAtStart
    /\ Len(last.list) = 2
    /\ last.accountId = last.list[2]
    /\ last.cursor0 = 0
    /\ last.path = "sticky"

(* Calls left to run to their end.  Every refresh, project lookup and      *)
(* quota probe in flight is answered (it resolves or rejects) and the      *)
(* 500 ms timer of the short wait fires: the continuations of a call are   *)
(* weakly fair.                                                            *)

(* 500 ms pass while the call is in its short wait *)
GnaSleepPasses ==
    /\ gna.pc = "sleep"
    /\ now < gna.sleepStart + SYNC_WAIT_MS
    /\ now' = gna.sleepStart + SYNC_WAIT_MS
    /\ last' = Awaiting
    /\ UNCHANGED <<order, objs, currentIndex, lastUsedAccount, probeCalls, gna, steps,
                   routerVars, sideVars>>

InitTerminate ==
    /\ now = StartNow
    /\ order \in LoadedOrders
    /\ objs \in { [id \in AccountIds |->
                      [InitAccount(id, IF id <= PoolSize THEN u[id] ELSE NULL, q)
                          EXCEPT !.expiresAt = IF id \in exp THEN StartNow + 60000 ELSE 0]] :
                   u \in [1..PoolSize -> {NULL, StartNow + 400, StartNow + 60000}],
                   exp \in InitExpiring, q \in {"p", "none"} }
    /\ currentIndex \in {0, PoolSize - 1}
    /\ lastUsedAccount \in {NoLastUsed, [accountId |-> 1, timestamp |-> StartNow - 1000]}
    /\ probeCalls = 0
    /\ gna = IdleFrame
    /\ RouterIdle
    /\ SideIdle
    /\ steps = 0
    /\ last = [op |-> "init"]

(* One call from each of the initial states *)
OneCallStep == steps = 0 /\ GetNextStep

NextTerminate ==
    \/ OneCallStep \/ RefreshDoneStep \/ ProjectDoneStep \/ GnaSleepPasses \/ GnaWake
    \/ ProbeDoneStep

SpecTerminate ==
    /\ InitTerminate /\ [][NextTerminate]_vars
    /\ WF_vars(RefreshDoneStep) /\ WF_vars(ProjectDoneStep) /\ WF_vars(GnaSleepPasses)
    /\ WF_vars(GnaWake) /\ WF_vars(ProbeDoneStep)

(* No account occurs twice in the sequence. *)
EachOnce(seq) == \A i, j \in 1..Len(seq) : seq[i] = seq[j] => i = j

(* C39: a call in flight completes; it has asked for a token refresh at     *)
(* most once per account of its list, it has slept at most once, for       *)
(* 500 ms, and exactly once when it returns by the short-wait path, and    *)
(* its quota validation has probed each account of its list at most once. *)
C39_SelectionTerminates ==
    /\ (gna.pc # "idle") ~> (gna.pc = "idle")
    /\ [](GnaReturned =>
            /\ EachOnce(last.refreshCalls)
            /\ \A i \in 1..Len(last.refreshCalls) : InList(last.refreshCalls[i], last.list)
            /\ last.sleeps <= 1
            /\ last.path \in {"refreshed", "reset"} <=> last.sleeps = 1
            /\ last.sleeps = 1 => last.at - last.sleepStart = SYNC_WAIT_MS
            /\ EachOnce(last.probed)
            /\ \A i \in 1..Len(last.probed) : InList(last.probed[i], last.list))

(* A call whose two refresh attempts failed went on to probe both accounts *)
(* and returned null.                                                      *)
C39_Witness ==
    /\ GnaReturned
    /\ last.outcome = "null"
    /\ Len(last.refreshCalls) = 2
    /\ Len(last.probed) = 2

(* The accounts of the call's list that were not rate-limited when the      *)
(* call started, and the account at the rotation cursor at that time (0 if  *)
(* the cursor was past the end of the list).                                *)
FreeAtStart ==
    {k \in 1..Len(last.list) :
        ~(Truthy(last.pre[last.list[k]]) /\ last.pre[last.list[k]] > last.startedAt)}

AtCursor0 == IF last.cursor0 < Len(last.list) THEN last.list[last.cursor0 + 1] ELSE 0

----------------------------------------------------------------------------
(* The account selector: one interface over the three provider kinds.     *)
(* antigravity accounts live in the AccountManager, codex and copilot     *)
(* accounts in the auth store.                                            *)

(* The accounts the auth store holds for codex and for copilot. *)
AuthKnown == 1..PoolSize

(* authStore.isRateLimited(provider, accountId) *)
authStoreIsRateLimited(provider, id) ==
    Truthy(authStore[provider][id]) /\ authStore[provider][id] > now

(* authStore.markRateLimited(provider, accountId, statusCode, errorText, retryAfterHeader) *)
authStoreMarkRateLimited(provider, id) ==
    authStore' = IF id \in AuthKnown
                 THEN [authStore EXCEPT ![provider][id] = now + 60000]
                 ELSE authStore

isRateLimited(provider, id) ==
    IF provider = "antigravity" THEN isAccountRateLimited(id)
    ELSE authStoreIsRateLimited(provider, id)

hasAccount(provider, id) ==
    IF provider = "antigravity" THEN Has(id) ELSE id \in AuthKnown

storeVars == <<now, order, objs, currentIndex, lastUsedAccount, probeCalls, gna>>

selectorMarkRateLimited(provider, accountId, durationMs) ==
    IF provider = "antigravity"
    THEN markRateLimited(accountId, durationMs)
    ELSE /\ authStoreMarkRateLimited(provider, accountId)
         /\ last' = [op |-> "markRateLimited", provider |-> provider,
                     accountId |-> accountId, durationMs |-> durationMs, at |-> now]
         /\ UNCHANGED <<storeVars, routerVars, locks, lastCall, hostVars>>

selectorMarkRateLimitedFromError(provider, accountId, statusCode, body, retryAfterHeader) ==
    IF provider = "antigravity"
    THEN markRateLimitedFromError(accountId, statusCode, body, retryAfterHeader)
    ELSE /\ authStoreMarkRateLimited(provider, accountId)
         /\ last' = [op |-> "markRateLimitedFromError", provider |-> provider,
                     accountId |-> accountId, statusCode |-> statusCode, body |-> body,
                     retryAfterHeader |-> retryAfterHeader, at |-> now,
                     result |-> [reason |-> "rate_limited", durationMs |-> 60000]]
         /\ UNCHANGED <<storeVars, routerVars, locks, lastCall, hostVars>>

selectorMarkSuccess(provider, accountId) ==
    IF provider = "antigravity"
    THEN markSuccess(accountId)
    ELSE \* "authStore rate limits auto-expire, no explicit clear needed"
         /\ last' = [op |-> "markSuccess", provider |-> provider, accountId |-> accountId,
                     at |-> now]
         /\ UNCHANGED <<storeVars, routerVars, sideVars>>

InitSelector ==
    /\ now = StartNow
    /\ order \in LoadedOrders
    /\ objs = [id \in AccountIds |-> Account(id, 0, "p")]
    /\ currentIndex = 0
    /\ lastUsedAccount = NoLastUsed
    /\ probeCalls = 0
    /\ gna = IdleFrame
    /\ RouterIdle
    /\ SideIdle
    /\ steps = 0
    /\ last = [op |-> "init"]

SelectorMarkStep ==
    \E p \in Providers, id \in AccountIds : Step /\ selectorMarkRateLimited(p, id, 60000)

SelectorMarkFromErrorStep ==
    \E p \in Providers, id \in AccountIds, e \in Errors :
        Step /\ selectorMarkRateLimitedFromError(p, id, e.statusCode, e.body,
                                                 e.retryAfterHeader)

SelectorSuccessStep ==
    \E p \in Providers, id \in AccountIds : Step /\ selectorMarkSuccess(p, id)

NextSelector == SelectorMarkStep \/ SelectorMarkFromErrorStep \/ SelectorSuccessStep

SpecSelector == InitSelector /\ [][NextSelector]_vars

(* The provider of the selector call recorded in a step's outcome. *)
ProviderOf(rec) == IF "provider" \in DOMAIN rec THEN rec.provider ELSE "antigravity"

(* C13: markSuccess(provider, accountId) on an existing account leaves it   *)
(* with no rate limit and no consecutive failures, so isRateLimited is      *)
(* false right afterwards, for each of the three providers, and no other    *)
(* account changes.                                                         *)
C13_SuccessClears ==
    [][ \A p \in Providers, a \in AccountIds :
          ( /\ last'.op = "markSuccess"
            /\ ProviderOf(last') = p
            /\ last'.accountId = a
            /\ hasAccount(p, a) ) =>
             /\ ~isRateLimited(p, a)'
             /\ p = "antigravity" =>
                   /\ objs'[a].rateLimitedUntil = NULL
                   /\ objs'[a].consecutiveFailures = 0
             /\ \A id \in AccountIds \ {a} : objs'[id] = objs[id]
             /\ \A q \in OtherProviders, id \in AccountIds :
                   (q # p \/ id # a) => authStore'[q][id] = authStore[q][id] ]_vars

(* C14: markRateLimitedFromError on an account that does not exist returns  *)
(* null and changes no account, for each provider; markRateLimited and      *)
(* markSuccess on such an account change nothing.                           *)
C14_UnknownAccountNoOp ==
    [][ ( /\ last'.op \in {"markRateLimitedFromError", "markRateLimited", "markSuccess"}
          /\ ~hasAccount(ProviderOf(last'), last'.accountId) ) =>
           /\ objs' = objs
           /\ authStore' = authStore
           /\ last'.op = "markRateLimitedFromError" => last'.result = NoResult ]_vars

----------------------------------------------------------------------------
(* Persistence: save() writes accounts.json, load() reads it.              *)

CredentialKeys == {"id", "email", "accessToken", "refreshToken", "expiresAt", "projectId"}

AccountKeys == CredentialKeys \cup {"rateLimitedUntil", "consecutiveFailures"}

(* An account in memory with its credentials: token t, project projectId. *)
Credentialed(id, t, projectId) ==
    [id |-> id, email |-> id, accessToken |-> t, refreshToken |-> t + 10,
     expiresAt |-> StartNow + t, projectId |-> projectId,
     rateLimitedUntil |-> NULL, consecutiveFailures |-> 0]

(* The value undefined, as a number for the numeric properties and as a   *)
(* string for projectId.                                                  *)
UNDEFINED == -2

undefined(key) == IF key = "projectId" THEN "undefined" ELSE UNDEFINED

(* JSON.stringify of an object: a property whose value is undefined is    *)
(* left out.                                                              *)
stringify(obj) ==
    [k \in {key \in DOMAIN obj : obj[key] # undefined(key)} |-> obj[k]]

(* Reading property key of a parsed object. *)
property(obj, key) == IF key \in DOMAIN obj THEN obj[key] ELSE undefined(key)

(* The object save() writes for an account: the six credential fields. *)
saved(acc) == stringify([k \in CredentialKeys |-> acc[k]])

(* The account load() stores as it was read, runtime fields not set. *)
loadedAsStored(acc) == [k \in AccountKeys |-> property(acc, k)]

(* The account load() stores for an object of the file: the object's      *)
(* properties, then rateLimitedUntil: null and consecutiveFailures: 0.     *)
loaded(acc) ==
    [k \in AccountKeys |->
        CASE k = "rateLimitedUntil" -> NULL
          [] k = "consecutiveFailures" -> 0
          [] OTHER -> property(acc, k)]

(* save() *)
save ==
    /\ dataFile' = [exists |-> TRUE,
                    accounts |-> [i \in 1..Len(order) |-> saved(objs[order[i]])]]
    /\ last' = [op |-> "save", order |-> order, objs |-> objs]
    /\ UNCHANGED <<storeVars, routerVars, authStore, locks, lastCall, ide, routing, panel,
                   dynamicModels>>

(* The ids of a list of objects, each once, in order of first occurrence. *)
RECURSIVE Keys(_)
Keys(list) ==
    IF list = <<>> THEN <<>>
    ELSE LET rest == Keys(SubSeq(list, 1, Len(list) - 1))
             id == list[Len(list)].id
         IN  IF \E i \in 1..Len(rest) : rest[i] = id THEN rest ELSE Append(rest, id)

(* The object stored last under id by setting the list's objects in order. *)
StoredUnder(list, id) ==
    list[CHOOSE i \in 1..Len(list) :
            /\ list[i].id = id
            /\ \A j \in (i + 1)..Len(list) : list[j].id # id]

(* load() in a manager constructed anew: the accounts of the file; if     *)
(* there are none, those of the auth store (stored); if there are none     *)
(* either and the global state holds tokens (migrated), the account of the *)
(* global state.                                                           *)
load(stored, migrated) ==
    LET fromFile == IF dataFile.exists
                    THEN [i \in 1..Len(dataFile.accounts) |-> loaded(dataFile.accounts[i])]
                    ELSE <<>>
        hydrated == IF fromFile = <<>> THEN stored ELSE fromFile
        list == IF hydrated = <<>> THEN migrated ELSE hydrated
    IN  /\ order' = Keys(list)
        /\ objs' = [id \in AccountIds |->
                       IF \E i \in 1..Len(list) : list[i].id = id
                       THEN StoredUnder(list, id)
                       ELSE objs[id]]
        /\ currentIndex' = 0
        /\ lastUsedAccount' = NoLastUsed
        /\ last' = [op |-> "load", afterSave |-> last.op = "save",
                    saved |-> IF last.op = "save" THEN last ELSE [order |-> <<>>],
                    hydrated |-> fromFile = <<>> /\ list # <<>>]
        /\ UNCHANGED <<now, probeCalls, gna, routerVars, sideVars>>

(* The accounts in memory when the model's runs start. *)
InitProjects == {"p", "none", "undefined"}

InitPersist ==
    /\ now = StartNow
    /\ order \in LoadedOrders
    /\ objs \in { [id \in AccountIds |->
                     [Credentialed(id, id, proj) EXCEPT
                        !.rateLimitedUntil = IF id \in lim THEN StartNow + 60000 ELSE NULL,
                        !.consecutiveFailures = IF id \in lim THEN 1 ELSE 0]] :
                  lim \in InitExpiring, proj \in InitProjects }
    /\ currentIndex = 0
    /\ lastUsedAccount = NoLastUsed
    /\ probeCalls = 0
    /\ gna = IdleFrame
    /\ RouterIdle
    /\ SideIdle
    /\ steps = 0
    /\ last = [op |-> "init"]

SaveStep == Step /\ save

(* The accounts the auth store and the global state may hold at a restart. *)
StoredAccounts == {<<>>, <<Credentialed(1, 5, "p")>>}

MigratedAccounts == {<<>>, <<Credentialed(ChainLen, 7, "undefined")>>}

LoadStep ==
    \E stored \in StoredAccounts, migrated \in MigratedAccounts :
        Step /\ load(stored, migrated)

PersistMarkStep == \E id \in 1..PoolSize : Step /\ markRateLimited(id, 60000)

NextPersist == SaveStep \/ LoadStep \/ PersistMarkStep

SpecPersist == InitPersist /\ [][NextPersist]_vars

(* The credential fields of an account. *)
Credentials(acc) == [k \in CredentialKeys |-> acc[k]]

(* C22: load() into a new manager right after save() gives, for every      *)
(* account saved, an account with the same id, email, accessToken,         *)
(* refreshToken, expiresAt and projectId, with rateLimitedUntil null and   *)
(* consecutiveFailures 0, and the accounts in the order they had.          *)
C22_SaveLoadRoundTrip ==
    (last.op = "load" /\ last.afterSave) =>
        /\ \A i \in 1..Len(last.saved.order) :
              LET id == last.saved.order[i]
              IN  /\ Has(id)
                  /\ Credentials(objs[id]) = Credentials(last.saved.objs[id])
                  /\ objs[id].rateLimitedUntil = NULL
                  /\ objs[id].consecutiveFailures = 0
        /\ last.saved.order # <<>> => order = last.saved.order

C22_Witness ==
    /\ last.op = "load"
    /\ last.afterSave
    /\ Len(last.saved.order) = PoolSize
    /\ \E id \in 1..PoolSize :
          /\ last.saved.objs[id].rateLimitedUntil # NULL
          /\ last.saved.objs[id].consecutiveFailures > 0
          /\ last.saved.objs[id].projectId = "undefined"

----------------------------------------------------------------------------
(* The routing panel: POST /routing/cleanup                                *)

MaxEntries == 2

(* The account ids an entry can name: the sentinel, the account the entry's *)
(* provider may hold, an account that no longer exists.                     *)
EntryAccounts == {"auto", "acc", "gone"}

(* The chains of the model's runs: up to MaxEntries entries of a few kinds. *)
ChainEntries ==
    { [provider |-> "antigravity", accountId |-> "auto"],
      [provider |-> "antigravity", accountId |-> "gone"],
      [provider |-> "codex", accountId |-> "auto"],
      [provider |-> "codex", accountId |-> "acc"],
      [provider |-> "copilot", accountId |-> "gone"],
      [provider |-> "copilot", accountId |-> "acc"] }

Chains == UNION { [1..n -> ChainEntries] : n \in 0..MaxEntries }

(* new Set(authStore.listSummaries(provider).map(a => a.id || a.email)),  *)
(* for each provider: the account "acc" exists or no account does.         *)
ValidSets == [Providers -> {{}, {"acc"}}]

(* The filter of the cleanup: "auto" is valid for antigravity only. *)
isValid(entry, valid) ==
    CASE entry.provider = "antigravity" ->
             entry.accountId = "auto" \/ entry.accountId \in valid["antigravity"]
      [] entry.provider = "codex" -> entry.accountId \in valid["codex"]
      [] entry.provider = "copilot" -> entry.accountId \in valid["copilot"]
      [] OTHER -> FALSE

(* entries.filter(isValid) *)
cleaned(entries, valid) == SelectSeq(entries, LAMBDA e : isValid(e, valid))

(* The entries a filter removed. *)
removed(entries, valid) == Len(entries) - Len(cleaned(entries, valid))

RECURSIVE Sum(_)
Sum(ns) == IF ns = <<>> THEN 0 ELSE Head(ns) + Sum(Tail(ns))

(* accountManager.clearAllRateLimits() *)
clearAllRateLimits(O) ==
    [id \in AccountIds |-> [O[id] EXCEPT !.rateLimitedUntil = NULL,
                                         !.consecutiveFailures = 0]]

(* POST /routing/cleanup *)
cleanup(valid) ==
    LET flows == [i \in 1..Len(routing.flows) |->
                     [routing.flows[i] EXCEPT !.entries = cleaned(@, valid)]]
        routes == [i \in 1..Len(routing.routes) |->
                     [routing.routes[i] EXCEPT !.entries = cleaned(@, valid)]]
        removedCount ==
            Sum([i \in 1..Len(routing.flows) |-> removed(routing.flows[i].entries, valid)])
          + Sum([i \in 1..Len(routing.routes) |-> removed(routing.routes[i].entries, valid)])
    IN  /\ routing' = [flows |-> flows, routes |-> routes]
        /\ objs' = clearAllRateLimits(objs)
        /\ last' = [op |-> "cleanup", before |-> routing, valid |-> valid, success |-> TRUE,
                    removedCount |-> removedCount]
        /\ UNCHANGED <<now, order, currentIndex, lastUsedAccount, probeCalls, gna, routerVars,
                       authStore, locks, lastCall, dataFile, ide, panel, dynamicModels>>

InitCleanup ==
    /\ now = StartNow
    /\ order = [i \in 1..PoolSize |-> i]
    /\ objs \in { [id \in AccountIds |->
                      InitAccount(id, IF id \in lim THEN StartNow + 60000 ELSE NULL, "p")] :
                  lim \in {{}, 1..PoolSize} }
    /\ currentIndex = 0
    /\ lastUsedAccount = NoLastUsed
    /\ probeCalls = 0
    /\ gna = IdleFrame
    /\ RouterIdle
    /\ authStore = [p \in OtherProviders |-> [id \in AccountIds |-> NULL]]
    /\ locks = [l \in LockNames |-> <<>>]
    /\ lastCall = NULL
    /\ dataFile = NoFile
    /\ ide = NoIde
    /\ routing \in { [flows |-> <<[name |-> "flow-head", entries |-> f]>>,
                      routes |-> <<[modelId |-> "claude-routed", entries |-> r]>>] :
                     f \in Chains, r \in {c \in Chains : Len(c) <= 1} }
    /\ panel = PanelIdle
    /\ dynamicModels = NoDynamic
    /\ steps = 0
    /\ last = [op |-> "init"]

CleanupStep == \E valid \in ValidSets : Step /\ cleanup(valid)

NextCleanup == CleanupStep

SpecCleanup == InitCleanup /\ [][NextCleanup]_vars

(* Whether the entry names the sentinel or an account of its provider. *)
References(entry, valid) ==
    entry.accountId = "auto" \/ entry.accountId \in valid[entry.provider]

Kept(entries, valid) == SelectSeq(entries, LAMBDA e : References(e, valid))

(* C23: the cleanup removes exactly the flow entries and account-routing    *)
(* entries whose accountId is neither an account of the entry's provider    *)
(* nor "auto", keeps the others in their order, and removedCount is the     *)
(* number of entries removed.                                               *)
C23_CleanupExact ==
    last.op = "cleanup" =>
        /\ \A i \in 1..Len(routing.flows) :
              routing.flows[i].entries = Kept(last.before.flows[i].entries, last.valid)
        /\ \A i \in 1..Len(routing.routes) :
              routing.routes[i].entries = Kept(last.before.routes[i].entries, last.valid)
        /\ last.removedCount =
              Sum([i \in 1..Len(routing.flows) |->
                      Len(last.before.flows[i].entries) - Len(routing.flows[i].entries)])
            + Sum([i \in 1..Len(routing.routes) |->
                      Len(last.before.routes[i].entries) - Len(routing.routes[i].entries)])

----------------------------------------------------------------------------
(* The provider model lists.  A string is a sequence of pieces, "_" being  *)
(* a white-space character; a model option is [id, label].                 *)

RECURSIVE trimStart(_)
trimStart(str) ==
    IF str # <<>> /\ Head(str) = "_" THEN trimStart(Tail(str)) ELSE str

RECURSIVE trimEnd(_)
trimEnd(str) ==
    IF str # <<>> /\ str[Len(str)] = "_" THEN trimEnd(SubSeq(str, 1, Len(str) - 1)) ELSE str

(* String.prototype.trim *)
trim(str) == trimEnd(trimStart(str))

Option(id, label) == [id |-> id, label |-> label]

CODEX_HIDDEN_MODELS ==
    { <<"gpt-5.3-max-high">>, <<"gpt-5.3-max">>, <<"gpt-5.2-max-high">>, <<"gpt-5.2-max">> }

CODEX_MODELS ==
    << Option(<<"gpt-5.3-max-high">>, <<"Codex - 5.3 Max (High)">>),
       Option(<<"gpt-5.3-max">>, <<"Codex - 5.3 Max">>),
       Option(<<"gpt-5.3">>, <<"Codex - 5.3">>),
       Option(<<"gpt-5.3-codex">>, <<"Codex - 5.3 Codex">>),
       Option(<<"gpt-5.2-max-high">>, <<"Codex - 5.2 Max (High)">>),
       Option(<<"gpt-5.2-max">>, <<"Codex - 5.2 Max">>),
       Option(<<"gpt-5.2">>, <<"Codex - 5.2">>),
       Option(<<"gpt-5.2-codex">>, <<"Codex - 5.2 Codex">>),
       Option(<<"gpt-5.1">>, <<"Codex - 5.1">>),
       Option(<<"gpt-5.1-codex">>, <<"Codex - 5.1 Codex">>),
       Option(<<"gpt-5.1-codex-max">>, <<"Codex - 5.1 Codex Max">>),
       Option(<<"gpt-5.1-codex-mini">>, <<"Codex - 5.1 Codex Mini">>),
       Option(<<"gpt-5">>, <<"Codex - 5">>),
       Option(<<"gpt-5-codex">>, <<"Codex - 5 Codex">>),
       Option(<<"gpt-5-codex-mini">>, <<"Codex - 5 Codex Mini">>) >>

COPILOT_STATIC_MODELS ==
    << Option(<<"claude-opus-4-5-thinking">>, <<"Copilot - Opus 4.5 Thinking">>),
       Option(<<"claude-sonnet-4-5">>, <<"Copilot - Sonnet 4.5">>),
       Option(<<"claude-sonnet-4-5-thinking">>, <<"Copilot - Sonnet 4.5 Thinking">>),
       Option(<<"gpt-4o">>, <<"Copilot - GPT-4o">>),
       Option(<<"gpt-4o-mini">>, <<"Copilot - GPT-4o Mini">>),
       Option(<<"gpt-4.1">>, <<"Copilot - GPT-4.1">>),
       Option(<<"gpt-4.1-mini">>, <<"Copilot - GPT-4.1 Mini">>) >>

(* Whether a list of options holds id. *)
HasId(list, id) == \E i \in 1..Len(list) : list[i].id = id

(* sanitizeModelOptions(models, prefix) *)
RECURSIVE sanitizeModelOptions(_, _)
sanitizeModelOptions(models, prefix) ==
    IF models = <<>> THEN <<>>
    ELSE LET rest == sanitizeModelOptions(SubSeq(models, 1, Len(models) - 1), prefix)
             model == models[Len(models)]
             id == trim(model.id)
             label == IF trim(model.label) # <<>> THEN trim(model.label)
                      ELSE <<prefix, " - ">> \o id
         IN  IF id = <<>> \/ HasId(rest, id) THEN rest ELSE Append(rest, Option(id, label))

(* A merge in which a later option replaces an earlier one of the same id. *)
RECURSIVE mergeLastWins(_)
mergeLastWins(models) ==
    IF models = <<>> THEN <<>>
    ELSE LET rest == mergeLastWins(SubSeq(models, 1, Len(models) - 1))
             model == models[Len(models)]
         IN  IF HasId(rest, model.id)
             THEN [i \in 1..Len(rest) |-> IF rest[i].id = model.id THEN model ELSE rest[i]]
             ELSE Append(rest, model)

(* mergeModelOptions(...groups), on the groups laid end to end *)
RECURSIVE mergeModelOptions(_)
mergeModelOptions(models) ==
    IF models = <<>> THEN <<>>
    ELSE LET rest == mergeModelOptions(SubSeq(models, 1, Len(models) - 1))
             model == models[Len(models)]
         IN  IF HasId(rest, model.id) THEN rest ELSE Append(rest, model)

(* flattenDynamicModelsByAccount(bucket): the lists of the accounts, in the *)
(* order the accounts were first set.                                       *)
RECURSIVE flattenDynamicModelsByAccount(_)
flattenDynamicModelsByAccount(bucket) ==
    IF bucket = <<>> THEN <<>>
    ELSE Head(bucket).models \o flattenDynamicModelsByAccount(Tail(bucket))

(* Map.set(id, models) on a bucket *)
bucketSet(bucket, id, models) ==
    IF \E i \in 1..Len(bucket) : bucket[i].accountId = id
    THEN [i \in 1..Len(bucket) |->
             IF bucket[i].accountId = id THEN [accountId |-> id, models |-> models] ELSE bucket[i]]
    ELSE Append(bucket, [accountId |-> id, models |-> models])

visible(models) == SelectSeq(models, LAMBDA model : model.id \notin CODEX_HIDDEN_MODELS)

(* The stored codex list without the hidden-model filter. *)
codexStoredUnfiltered(models) == sanitizeModelOptions(models, "Codex")

(* What setDynamicCodexModels stores. *)
codexStored(models) == visible(sanitizeModelOptions(models, "Codex"))

(* getProviderModels(provider) for the dynamic lists D *)
getProviderModels(provider, D) ==
    CASE provider = "copilot" ->
             mergeModelOptions(flattenDynamicModelsByAccount(D.copilotByAccount)
                                  \o D.copilot \o COPILOT_STATIC_MODELS)
      [] provider = "codex" ->
             LET mergedDynamic ==
                     mergeModelOptions(flattenDynamicModelsByAccount(D.codexByAccount) \o D.codex)
             IN  IF Len(mergedDynamic) > 0 THEN mergedDynamic ELSE visible(CODEX_MODELS)
      [] OTHER -> <<>>

modelVars == <<storeVars, routerVars, authStore, locks, lastCall, dataFile, ide, routing,
               panel>>

setDynamicCopilotModels(models) ==
    /\ dynamicModels' = [dynamicModels EXCEPT !.copilot = sanitizeModelOptions(models, "Copilot")]
    /\ last' = [op |-> "setDynamicCopilotModels", models |-> models]
    /\ UNCHANGED modelVars

clearDynamicCopilotModels ==
    /\ dynamicModels' = [dynamicModels EXCEPT !.copilot = <<>>, !.copilotByAccount = <<>>]
    /\ last' = [op |-> "clearDynamicCopilotModels", models |-> <<>>]
    /\ UNCHANGED modelVars

setDynamicCopilotModelsForAccount(accountId, models) ==
    /\ dynamicModels' =
          IF trim(accountId) = <<>> THEN dynamicModels
          ELSE [dynamicModels EXCEPT !.copilotByAccount =
                    bucketSet(@, trim(accountId), sanitizeModelOptions(models, "Copilot"))]
    /\ last' = [op |-> "setDynamicCopilotModelsForAccount", models |-> models]
    /\ UNCHANGED modelVars

setDynamicCodexModels(models) ==
    /\ dynamicModels' = [dynamicModels EXCEPT !.codex = codexStored(models)]
    /\ last' = [op |-> "setDynamicCodexModels", models |-> models]
    /\ UNCHANGED modelVars

clearDynamicCodexModels ==
    /\ dynamicModels' = [dynamicModels EXCEPT !.codex = <<>>, !.codexByAccount = <<>>]
    /\ last' = [op |-> "clearDynamicCodexModels", models |-> <<>>]
    /\ UNCHANGED modelVars

setDynamicCodexModelsForAccount(accountId, models) ==
    /\ dynamicModels' =
          IF trim(accountId) = <<>> THEN dynamicModels
          ELSE [dynamicModels EXCEPT !.codexByAccount =
                    bucketSet(@, trim(accountId), codexStored(models))]
    /\ last' = [op |-> "setDynamicCodexModelsForAccount", models |-> models]
    /\ UNCHANGED modelVars

(* The options a caller passes: ids and labels with and without white      *)
(* space around them, an id of a static model, a hidden codex id, an id    *)
(* that is blank, a label that is empty.                                   *)
RawModels ==
    { Option(<<"new">>, <<"New">>),
      Option(<<"_", "new", "_">>, <<"_", "Newer">>),
      Option(<<"gpt-4o">>, <<"Dynamic 4o">>),
      Option(<<"gpt-5.2">>, <<>>),
      Option(<<"gpt-5.3-max", "_">>, <<"Max">>),
      Option(<<"_">>, <<"Blank">>) }

(* The lists a caller passes: none, one option, and pairs in which an id   *)
(* recurs, a static or hidden id comes first or second, an id is blank.    *)
RawLists ==
    {<<>>} \cup { <<model>> : model \in RawModels }
      \cup { << Option(<<"new">>, <<"New">>), Option(<<"_", "new", "_">>, <<"_", "Newer">>) >>,
             << Option(<<"_", "new", "_">>, <<"_", "Newer">>), Option(<<"new">>, <<"New">>) >>,
             << Option(<<"gpt-4o">>, <<"Dynamic 4o">>), Option(<<"new">>, <<"New">>) >>,
             << Option(<<"gpt-5.3-max", "_">>, <<"Max">>), Option(<<"gpt-5.2">>, <<>>) >>,
             << Option(<<"gpt-5.2">>, <<>>), Option(<<"gpt-5.3-max", "_">>, <<"Max">>) >>,
             << Option(<<"_">>, <<"Blank">>), Option(<<"new">>, <<"New">>) >> }

ModelAccounts == { <<"acc">>, <<"_">> }

InitModels ==
    /\ now = StartNow
    /\ order = [i \in 1..PoolSize |-> i]
    /\ objs = [id \in AccountIds |-> Account(id, 0, "p")]
    /\ currentIndex = 0
    /\ lastUsedAccount = NoLastUsed
    /\ probeCalls = 0
    /\ gna = IdleFrame
    /\ RouterIdle
    /\ SideIdle
    /\ steps = 0
    /\ last = [op |-> "init", models |-> <<>>]

SetCopilotStep == \E models \in RawLists : Step /\ setDynamicCopilotModels(models)

ClearCopilotStep == Step /\ clearDynamicCopilotModels

SetCopilotForAccountStep ==
    \E a \in ModelAccounts, models \in RawLists :
        Step /\ setDynamicCopilotModelsForAccount(a, models)

SetCodexStep == \E models \in RawLists : Step /\ setDynamicCodexModels(models)

ClearCodexStep == Step /\ clearDynamicCodexModels

SetCodexForAccountStep ==
    \E a \in ModelAccounts, models \in RawLists :
        Step /\ setDynamicCodexModelsForAccount(a, models)

NextModels ==
    \/ SetCopilotStep \/ ClearCopilotStep \/ SetCopilotForAccountStep
    \/ SetCodexStep \/ ClearCodexStep \/ SetCodexForAccountStep

SpecModels == InitModels /\ [][NextModels]_vars

(* The dynamic options of a provider in the order of precedence. *)
DynamicOptions(provider) ==
    IF provider = "copilot"
    THEN flattenDynamicModelsByAccount(dynamicModels.copilotByAccount) \o dynamicModels.copilot
    ELSE flattenDynamicModelsByAccount(dynamicModels.codexByAccount) \o dynamicModels.codex

(* The first option of a list with the given id. *)
FirstWith(list, id) == list[CHOOSE i \in 1..Len(list) :
                               list[i].id = id /\ \A j \in 1..(i - 1) : list[j].id # id]

Trimmed(str) == str = <<>> \/ (Head(str) # "_" /\ str[Len(str)] # "_")

(* C27: the copilot list holds each id once; an id that a dynamic list      *)
(* holds is returned with its dynamic label, the static models follow for  *)
(* the ids no dynamic list holds; the stored dynamic list has trimmed,     *)
(* non-empty ids and trimmed labels, and of the options of one id the      *)
(* first given.                                                            *)
C27_CopilotModels ==
    LET result == getProviderModels("copilot", dynamicModels)
        dynamic == DynamicOptions("copilot")
    IN  /\ \A i, j \in 1..Len(result) : result[i].id = result[j].id => i = j
        /\ \A i \in 1..Len(dynamic) :
              /\ HasId(result, dynamic[i].id)
              /\ FirstWith(result, dynamic[i].id) = FirstWith(dynamic, dynamic[i].id)
        /\ \A i \in 1..Len(COPILOT_STATIC_MODELS) :
              /\ HasId(result, COPILOT_STATIC_MODELS[i].id)
              /\ ~HasId(dynamic, COPILOT_STATIC_MODELS[i].id) =>
                    FirstWith(result, COPILOT_STATIC_MODELS[i].id) = COPILOT_STATIC_MODELS[i]
        /\ \A i \in 1..Len(result) :
              HasId(dynamic, result[i].id) \/ HasId(COPILOT_STATIC_MODELS, result[i].id)
        /\ \A i \in 1..Len(dynamicModels.copilot) :
              LET model == dynamicModels.copilot[i]
              IN  /\ model.id # <<>> /\ Trimmed(model.id)
                  /\ model.label # <<>> /\ Trimmed(model.label)
                  /\ \A j \in 1..Len(dynamicModels.copilot) :
                        dynamicModels.copilot[j].id = model.id => i = j
        /\ last.op = "setDynamicCopilotModels" =>
              \A i \in 1..Len(last.models) :
                 LET id == trim(last.models[i].id)
                 IN  id # <<>> =>
                        /\ HasId(dynamicModels.copilot, id)
                        /\ (trim(last.models[i].label) # <<>>
                            /\ \A j \in 1..(i - 1) : trim(last.models[j].id) # id) =>
                              FirstWith(dynamicModels.copilot, id).label = trim(last.models[i].label)

C27_Witness ==
    /\ last.op = "setDynamicCopilotModels"
    /\ Len(last.models) = 2
    /\ trim(last.models[1].id) = trim(last.models[2].id)
    /\ last.models[1] # last.models[2]
    /\ Len(dynamicModels.copilot) = 1
    /\ \E i \in 1..Len(dynamicModels.copilotByAccount) :
          HasId(dynamicModels.copilotByAccount[i].models, <<"gpt-4o">>)

(* C28: the codex list is the dynamic codex options, in their order, when   *)
(* there are any, and the static codex list without the hidden models       *)
(* otherwise; it never holds a hidden model.                                *)
C28_CodexModels ==
    LET result == getProviderModels("codex", dynamicModels)
        dynamic == DynamicOptions("codex")
    IN  /\ \A i \in 1..Len(result) : result[i].id \notin CODEX_HIDDEN_MODELS
        /\ dynamic = <<>> => result = visible(CODEX_MODELS)
        /\ dynamic # <<>> => result = mergeModelOptions(dynamic)
        /\ (dynamic # <<>> /\ dynamicModels.codexByAccount = <<>>) => result = dynamicModels.codex
        /\ last.op = "setDynamicCodexModels" =>
              dynamicModels.codex = visible(sanitizeModelOptions(last.models, "Codex"))

C28_Witness ==
    /\ last.op = "setDynamicCodexModels"
    /\ \E i \in 1..Len(last.models) : trim(last.models[i].id) \in CODEX_HIDDEN_MODELS
    /\ Len(dynamicModels.codex) = 1
    /\ dynamicModels.codexByAccount = <<>>
    /\ getProviderModels("codex", dynamicModels) = dynamicModels.codex

----------------------------------------------------------------------------
(* The routing panel: GET /routing/config.  The accounts of the manager    *)
(* were added and saved to accounts.json, and the first of them has been    *)
(* marked rate-limited since.  A request runs up to its first              *)
(* await, waits for the model syncs in flight (at most the soft timeout),  *)
(* computes the model lists, waits for the quota fetch in flight (at most  *)
(* its soft timeout) and responds.  A sync and a quota fetch run in the    *)
(* background and outlive the request that started them.  A task is        *)
(* recorded with the time at which it settles and with its outcome.        *)

COPILOT_SYNC_TTL_MS == 60000
COPILOT_SYNC_TIMEOUT_MS == 800
CODEX_SYNC_TTL_MS == 60000
CODEX_SYNC_TIMEOUT_MS == 800
QUOTA_TIMEOUT_MS == 1200
QUOTA_TTL_MS == 15000

(* The number of requests of a run. *)
MaxRequests == 2

SYNC_TTL_MS(provider) ==
    IF provider = "copilot" THEN COPILOT_SYNC_TTL_MS ELSE CODEX_SYNC_TTL_MS

SYNC_TIMEOUT_MS(provider) ==
    IF provider = "copilot" THEN COPILOT_SYNC_TIMEOUT_MS ELSE CODEX_SYNC_TIMEOUT_MS

(* copilotSyncInFlight / codexSyncInFlight: null *)
NoSync == [due |-> 0, synced |-> FALSE, models |-> <<>>, slow |-> FALSE]

(* quotaInFlight: null *)
NoFetch == [due |-> 0, ok |-> FALSE, value |-> 0, slow |-> FALSE]

(* The promise a request awaits has not settled. *)
Pending == [done |-> FALSE, ok |-> FALSE, value |-> 0]

(* Who wrote a provider's dynamic list last: nobody yet. *)
Unwritten == [by |-> "none", models |-> <<>>, slow |-> FALSE]

(* What listCopilotModelsForAccount / listCodexModelsForAccount answer for *)
(* one account: an error, no model, or a list of models.                    *)
Answer(error, models) == [error |-> error, models |-> models]

Failing == Answer(TRUE, <<>>)

(* The models a provider reports: one the static list does not have; and   *)
(* for copilot one it has, without a name, for codex a hidden one and one   *)
(* the static list has.                                                     *)
NewModels(provider) ==
    IF provider = "copilot" THEN << Option(<<"gpt-5.2">>, <<"_", "GPT-5.2">>) >>
    ELSE << Option(<<"gpt-6-codex">>, <<"Codex - 6 Codex">>) >>

KnownModels(provider) ==
    IF provider = "copilot" THEN << Option(<<"gpt-4o">>, <<>>) >>
    ELSE << Option(<<"gpt-5.3-max">>, <<"Max">>), Option(<<"gpt-5.2">>, <<"Dynamic 5.2">>) >>

(* What a request finds for one provider: the accounts the auth store      *)
(* lists, how long the sync takes if one is started (less or more than the  *)
(* soft timeout), and what the accounts answer.                             *)
Found(listed, delay, answers) == [listed |-> listed, delay |-> delay, answers |-> answers]

NoAccount == Found(<<>>, 100, <<>>)

SyncInputs(provider) ==
    { NoAccount,
      Found(<<1, 2>>, 100, <<Failing, Answer(FALSE, <<>>)>>),
      Found(<<1, 2>>, 100, <<Failing, Answer(FALSE, NewModels(provider))>>),
      Found(<<1, 2>>, 1200, <<Answer(FALSE, KnownModels(provider)),
                              Answer(FALSE, NewModels(provider))>>),
      Found(<<1, 2>>, 1200, <<Failing, Failing>>) }

(* What a request finds for copilot and for codex: every case of one       *)
(* provider while the other one has no account, and two cases in which      *)
(* both have accounts.                                                      *)
Finding(copilot, codex) == [copilot |-> copilot, codex |-> codex]

SyncFindings ==
    { Finding(found, NoAccount) : found \in SyncInputs("copilot") }
      \cup { Finding(NoAccount, found) : found \in SyncInputs("codex") }
      \cup { Finding(Found(<<1, 2>>, 100, <<Failing, Answer(FALSE, NewModels("copilot"))>>),
                     Found(<<1, 2>>, 1200, <<Failing, Failing>>)),
             Finding(Found(<<1, 2>>, 1200, <<Failing, Failing>>),
                     Found(<<1, 2>>, 100, <<Failing, Answer(FALSE, NewModels("codex"))>>)) }

(* What getAggregatedQuota does: how long it takes (less or more than the  *)
(* soft timeout) and whether it succeeds.                                   *)
Fetch(delay, ok) == [delay |-> delay, ok |-> ok]

QuickFetch == Fetch(100, TRUE)

Fetches == { Fetch(delay, ok) : delay \in {100, 1300}, ok \in BOOLEAN }

(* The time that may pass between two requests: little, or more than a     *)
(* synced model list lives (more than the quota snapshot lives).            *)
SyncGaps == {50, 61000}

QuotaGaps == {50, 16000}

(* remoteModels.map(...) of the copilot sync: the label is made of the     *)
(* model's name, or of its id when the name is blank.                       *)
copilotOptions(remoteModels) ==
    [i \in 1..Len(remoteModels) |->
        Option(remoteModels[i].id,
               <<"Copilot - ">> \o (IF trim(remoteModels[i].label) # <<>>
                                    THEN trim(remoteModels[i].label)
                                    ELSE remoteModels[i].id))]

(* The loop of a sync over the accounts: the models of the first account   *)
(* that answers with at least one model; not synced when there is none.    *)
RECURSIVE syncLoop(_)
syncLoop(answers) ==
    IF answers = <<>> THEN [synced |-> FALSE, models |-> <<>>]
    ELSE IF ~Head(answers).error /\ Len(Head(answers).models) > 0
         THEN [synced |-> TRUE, models |-> Head(answers).models]
         ELSE syncLoop(Tail(answers))

(* setDynamicCopilotModels / setDynamicCodexModels as the sync calls them. *)
setDynamic(provider, D, models) ==
    IF provider = "copilot"
    THEN [D EXCEPT !.copilot = sanitizeModelOptions(copilotOptions(models), "Copilot")]
    ELSE [D EXCEPT !.codex = codexStored(models)]

(* clearDynamicCopilotModels / clearDynamicCodexModels *)
clearDynamic(provider, D) ==
    IF provider = "copilot"
    THEN [D EXCEPT !.copilot = <<>>, !.copilotByAccount = <<>>]
    ELSE [D EXCEPT !.codex = <<>>, !.codexByAccount = <<>>]

inFlight(task) == task.due # 0

(* The locals of a request, and what it has found on its way: no request.  *)
NoFrame ==
    [reqNow |-> 0, listed |-> [p \in OtherProviders |-> <<>>], started |-> {},
     awaited |-> {}, before |-> NoDynamic, syncWaited |-> 0, timedOut |-> {},
     models |-> [p \in OtherProviders |-> <<>>],
     fresh |-> [p \in OtherProviders |-> Unwritten],
     slowSync |-> [p \in OtherProviders |-> NoSync],
     fetchStarted |-> FALSE, cachedSnapshot |-> 0, cachedAt |-> 0, cachedSlow |-> FALSE,
     quotaFrom |-> 0, settled |-> Pending]

(* A sync is started while one is in flight. *)
startsSyncWhileInFlight(provider, listed) ==
    /\ Len(listed) > 0
    /\ now - panel.lastSyncAt[provider] > SYNC_TTL_MS(provider)

(* The request starts a sync for the provider. *)
startsSync(provider, listed) ==
    /\ Len(listed) > 0
    /\ now - panel.lastSyncAt[provider] > SYNC_TTL_MS(provider)
    /\ ~inFlight(panel.sync[provider])

(* A fetch is started whatever the age of the snapshot. *)
shouldFetchAlways(P) == TRUE

(* shouldFetchQuota *)
shouldFetchQuota(P) ==
    P.lastQuotaSnapshot = 0 \/ P.frame.reqNow - P.lastQuotaAt > QUOTA_TTL_MS

panelVars == <<currentIndex, lastUsedAccount, probeCalls, gna, routerVars,
               authStore, locks, lastCall, dataFile, ide, routing>>

(* accountManager.load() in the running manager: every account of the file *)
(* is set anew under its id, with rateLimitedUntil null and no consecutive  *)
(* failures; an account the manager did not hold is added at the end.       *)
reload ==
    LET fromFile == IF dataFile.exists
                    THEN [i \in 1..Len(dataFile.accounts) |-> loaded(dataFile.accounts[i])]
                    ELSE <<>>
    IN  /\ order' = order \o SelectSeq(Keys(fromFile), LAMBDA id : ~Has(id))
        /\ objs' = [id \in AccountIds |->
                       IF \E i \in 1..Len(fromFile) : fromFile[i].id = id
                       THEN StoredUnder(fromFile, id)
                       ELSE objs[id]]

(* The response. *)
respond(P, quota, quotaTimedOut) ==
    /\ panel' = [P EXCEPT !.pc = "idle", !.frame = NoFrame]
    /\ last' = [op |-> "config", status |-> 200, frame |-> P.frame,
                quota |-> quota, quotaWaited |-> now - P.frame.quotaFrom,
                quotaTimedOut |-> quotaTimedOut]

(* From `const accounts = ...` to the await of the quota fetch: the model  *)
(* lists are computed from the dynamic lists D, a quota fetch is started    *)
(* when one is due and none is in flight, and the request waits for the     *)
(* fetch in flight or responds with the cached snapshot.                    *)
afterSync(P0, D, fetch) ==
    LET P == [P0 EXCEPT !.frame.syncWaited = now - P0.frame.reqNow,
                        !.frame.timedOut = {p \in OtherProviders : inFlight(P0.sync[p])},
                        !.sync = [p \in OtherProviders |->
                                     IF inFlight(P0.sync[p])
                                     THEN [P0.sync[p] EXCEPT !.slow = TRUE]
                                     ELSE P0.sync[p]],
                        !.frame.models = [p \in OtherProviders |-> getProviderModels(p, D)],
                        !.frame.fresh = P0.fresh,
                        !.frame.cachedSnapshot = P0.lastQuotaSnapshot,
                        !.frame.cachedAt = P0.lastQuotaAt,
                        !.frame.cachedSlow = P0.lastQuotaSlow,
                        !.frame.quotaFrom = now]
        starts == shouldFetchQuota(P) /\ ~inFlight(P.quota)
    IN  IF starts
        THEN /\ panel' = [P EXCEPT !.pc = "quotaWait",
                                   !.fetches = @ + 1,
                                   !.frame.fetchStarted = TRUE,
                                   !.quota = [due |-> now + fetch.delay, ok |-> fetch.ok,
                                              value |-> P.fetches + 1, slow |-> FALSE]]
             /\ last' = [op |-> "getConfig"]
        ELSE IF inFlight(P.quota)
             THEN /\ panel' = [P EXCEPT !.pc = "quotaWait"]
                  /\ last' = [op |-> "getConfig"]
             ELSE respond(P, P.lastQuotaSnapshot, FALSE)

(* The task a request starts for a provider, or the one in flight. *)
syncTask(provider, found) ==
    IF startsSync(provider, found.listed)
    THEN LET loop == syncLoop(found.answers)
         IN  [due |-> now + found.delay, synced |-> loop.synced,
              models |-> loop.models, slow |-> FALSE]
    ELSE panel.sync[provider]

(* GET /routing/config up to `await Promise.all(syncWaiters)`, and beyond   *)
(* it when no sync is in flight.                                            *)
getConfig(finding, fetch) ==
    LET cleared == {p \in OtherProviders : Len(finding[p].listed) = 0}
        started == {p \in OtherProviders : startsSync(p, finding[p].listed)}
        D1 == IF "copilot" \in cleared THEN clearDynamic("copilot", dynamicModels)
              ELSE dynamicModels
        D == IF "codex" \in cleared THEN clearDynamic("codex", D1) ELSE D1
        P == [panel EXCEPT
                 !.requests = @ + 1,
                 !.rested = FALSE,
                 !.frame = [NoFrame EXCEPT !.reqNow = now,
                                           !.slowSync = panel.lastSlowSync,
                                           !.listed = [p \in OtherProviders |-> finding[p].listed],
                                           !.started = started, !.before = D],
                 !.lastSyncAt = [p \in OtherProviders |->
                                    IF p \in cleared THEN 0
                                    ELSE IF p \in started THEN now ELSE @[p]],
                 !.fresh = [p \in OtherProviders |->
                               IF p \in cleared
                               THEN [by |-> "cleared", models |-> <<>>, slow |-> FALSE]
                               ELSE @[p]],
                 !.sync = [p \in OtherProviders |-> syncTask(p, finding[p])]]
    IN  /\ panel.pc = "idle"
        /\ panel.requests < MaxRequests
        /\ reload
        /\ dynamicModels' = D
        /\ IF \E p \in OtherProviders : inFlight(P.sync[p])
           THEN /\ panel' = [P EXCEPT !.pc = "syncWait",
                                      !.frame.awaited =
                                          {p \in OtherProviders : inFlight(P.sync[p])}]
                /\ last' = [op |-> "getConfig"]
           ELSE afterSync(P, D, fetch)
        /\ UNCHANGED <<now, panelVars, steps>>

(* settleWithTimeout(promise, timeoutMs) that never times out. *)
settledNoTimer(task, since, timeoutMs) == ~inFlight(task)

(* settleWithTimeout(promise, timeoutMs) has resolved: the promise has     *)
(* settled or the timer set at `since` has fired.                           *)
settled(task, since, timeoutMs) == ~inFlight(task) \/ now >= since + timeoutMs

(* `await Promise.all(syncWaiters)` is over. *)
syncWaitOver ==
    /\ panel.pc = "syncWait"
    /\ \A p \in panel.frame.awaited :
          settled(panel.sync[p], panel.frame.reqNow, SYNC_TIMEOUT_MS(p))

(* `await settleWithTimeout(quotaInFlight, QUOTA_TIMEOUT_MS)` is over. *)
quotaWaitOver ==
    /\ panel.pc = "quotaWait"
    /\ \/ panel.frame.settled.done
       \/ settled(panel.quota, panel.frame.quotaFrom, QUOTA_TIMEOUT_MS)

(* The request goes on after the wait for the syncs. *)
resumeAfterSync(fetch) ==
    /\ syncWaitOver
    /\ afterSync(panel, dynamicModels, fetch)
    /\ UNCHANGED <<now, dynamicModels, order, objs, panelVars, steps>>

(* The request goes on after the wait for the quota fetch and responds. *)
resumeAfterQuota ==
    /\ quotaWaitOver
    /\ IF panel.frame.settled.done /\ panel.frame.settled.ok /\ panel.frame.settled.value # 0
       THEN respond(panel, panel.frame.settled.value, FALSE)
       ELSE respond([panel EXCEPT !.quota.slow = inFlight(panel.quota)],
                    panel.lastQuotaSnapshot, ~panel.frame.settled.done)
    /\ UNCHANGED <<now, dynamicModels, order, objs, panelVars, steps>>

(* A sync in flight settles: its `finally`. *)
syncSettles(provider) ==
    LET task == panel.sync[provider]
    IN  /\ inFlight(task)
        /\ task.due = now
        /\ dynamicModels' = IF task.synced THEN setDynamic(provider, dynamicModels, task.models)
                            ELSE clearDynamic(provider, dynamicModels)
        /\ panel' = [panel EXCEPT
                        !.sync[provider] = NoSync,
                        !.lastSlowSync[provider] =
                            IF task.synced /\ task.slow THEN task ELSE @,
                        !.fresh[provider] =
                            [by |-> IF task.synced THEN "synced" ELSE "failed",
                             models |-> task.models, slow |-> task.slow]]
        /\ UNCHANGED <<now, last, order, objs, panelVars, steps>>

(* The quota fetch in flight settles. *)
quotaSettles ==
    LET task == panel.quota
    IN  /\ inFlight(task)
        /\ task.due = now
        /\ panel' = [panel EXCEPT
                        !.quota = NoFetch,
                        !.lastQuotaSnapshot = IF task.ok THEN task.value ELSE @,
                        !.lastQuotaAt = IF task.ok THEN now ELSE @,
                        !.lastQuotaSlow = IF task.ok THEN task.slow ELSE @,
                        !.frame.settled =
                            IF panel.pc = "quotaWait"
                            THEN [done |-> TRUE, ok |-> task.ok,
                                  value |-> IF task.ok THEN task.value ELSE 0]
                            ELSE @]
        /\ UNCHANGED <<now, last, dynamicModels, order, objs, panelVars, steps>>

(* The times at which something is due: a task settles, a timer fires. *)
DueTimes ==
    { panel.sync[p].due : p \in {q \in OtherProviders : inFlight(panel.sync[q])} }
      \cup (IF inFlight(panel.quota) THEN {panel.quota.due} ELSE {})
      \cup (IF panel.pc = "syncWait"
            THEN { panel.frame.reqNow + SYNC_TIMEOUT_MS(p) : p \in panel.frame.awaited }
            ELSE {})
      \cup (IF panel.pc = "quotaWait" THEN {panel.frame.quotaFrom + QUOTA_TIMEOUT_MS}
            ELSE {})

(* Time passes up to the next moment at which something is due; between    *)
(* two requests it may also pass by a gap, once.  It does not pass while a  *)
(* task is due or a request can go on.                                      *)
timePasses(t, gaps) ==
    /\ ~syncWaitOver
    /\ ~quotaWaitOver
    /\ \A p \in OtherProviders : inFlight(panel.sync[p]) => panel.sync[p].due > now
    /\ inFlight(panel.quota) => panel.quota.due > now
    /\ panel.pc # "idle" \/ panel.requests < MaxRequests
    /\ t > now
    /\ \A d \in DueTimes : d > now => t <= d
    /\ \/ t \in DueTimes /\ UNCHANGED panel
       \/ /\ panel.pc = "idle"
          /\ ~panel.rested
          /\ t \in { now + g : g \in gaps }
          /\ panel' = [panel EXCEPT !.rested = TRUE]
    /\ now' = t
    /\ UNCHANGED <<dynamicModels, last, order, objs, panelVars, steps>>

InitPanel ==
    /\ now = StartNow
    /\ order = [i \in 1..PoolSize |-> i]
    /\ objs = [id \in AccountIds |->
                  IF id = 1
                  THEN [Credentialed(id, id, "p") EXCEPT !.rateLimitedUntil = StartNow + 60000,
                                                         !.consecutiveFailures = 1]
                  ELSE Credentialed(id, id, "p")]
    /\ currentIndex = 0
    /\ lastUsedAccount = NoLastUsed
    /\ probeCalls = 0
    /\ gna = IdleFrame
    /\ RouterIdle
    /\ authStore = [p \in OtherProviders |-> [id \in AccountIds |-> NULL]]
    /\ locks = [l \in LockNames |-> <<>>]
    /\ lastCall = NULL
    /\ dataFile = [exists |-> TRUE,
                   accounts |-> [i \in 1..PoolSize |-> saved(Credentialed(i, i, "p"))]]
    /\ ide = NoIde
    /\ routing = NoRouting
    /\ dynamicModels = NoDynamic
    /\ panel = [pc |-> "idle", requests |-> 0, rested |-> FALSE, frame |-> NoFrame,
                lastSyncAt |-> [p \in OtherProviders |-> 0],
                sync |-> [p \in OtherProviders |-> NoSync],
                fresh |-> [p \in OtherProviders |-> Unwritten],
                lastSlowSync |-> [p \in OtherProviders |-> NoSync],
                lastQuotaSnapshot |-> 0, lastQuotaAt |-> 0, lastQuotaSlow |-> FALSE,
                quota |-> NoFetch, fetches |-> 0]
    /\ steps = 0
    /\ last = [op |-> "init"]

(* Requests whose syncs take every course, the quota fetch being quick. *)
GetConfigStep == \E finding \in SyncFindings : getConfig(finding, QuickFetch)

ResumeAfterSyncStep == resumeAfterSync(QuickFetch)

ResumeAfterQuotaStep == resumeAfterQuota

SyncSettlesStep == \E p \in OtherProviders : syncSettles(p)

QuotaSettlesStep == quotaSettles

TimePassesStep ==
    \E t \in DueTimes \cup { now + g : g \in SyncGaps } : timePasses(t, SyncGaps)

NextPanel ==
    \/ GetConfigStep \/ ResumeAfterSyncStep \/ ResumeAfterQuotaStep
    \/ SyncSettlesStep \/ QuotaSettlesStep \/ TimePassesStep

SpecPanel == InitPanel /\ [][NextPanel]_vars

(* Requests whose quota fetch takes every course, no provider having an    *)
(* account or copilot's sync failing late.                                  *)
QuotaFindings ==
    { Finding(NoAccount, NoAccount),
      Finding(Found(<<1, 2>>, 1200, <<Failing, Failing>>), NoAccount) }

QuotaRequestStep ==
    \E finding \in QuotaFindings, fetch \in Fetches : getConfig(finding, fetch)

QuotaResumeStep == \E fetch \in Fetches : resumeAfterSync(fetch)

QuotaTimeStep ==
    \E t \in DueTimes \cup { now + g : g \in QuotaGaps } : timePasses(t, QuotaGaps)

NextQuota ==
    \/ QuotaRequestStep \/ QuotaResumeStep \/ ResumeAfterQuotaStep
    \/ SyncSettlesStep \/ QuotaSettlesStep \/ QuotaTimeStep

SpecQuota == InitPanel /\ [][NextQuota]_vars

(* ------------------------------------------------------------------------ *)
(* GET /routing/config under concurrent requests.  A request runs from its  *)
(* start to its first await, and from one await to the next, without        *)
(* another one in between; the syncs and the fetch go on beside them.       *)
(* ------------------------------------------------------------------------ *)

Clients == {1, 2}

Kinds == OtherProviders \cup {"quota"}

(* A sync or a fetch that a request has started: the async function in     *)
(* flight and the promise that stands for it.  It takes any time: it may    *)
(* end from the moment it has started.                                      *)
Running(kind, by) == [kind |-> kind, by |-> by, startedAt |-> now, due |-> now]

(* copilotSyncInFlight, codexSyncInFlight, quotaInFlight: null *)
NoPromise == [kind |-> "none", by |-> 0, startedAt |-> 0, due |-> 0]

(* The locals of a request of one client: no request. *)
NoRequest == [pc |-> "idle", reqNow |-> 0, waitFrom |-> 0, awaited |-> {}]

(* The accounts a request finds for a provider: none or one. *)
Listings == {<<>>, <<1>>}

(* The soft timeout of the wait for a promise. *)
TimeoutOf(kind) == IF kind = "quota" THEN QUOTA_TIMEOUT_MS ELSE SYNC_TIMEOUT_MS(kind)

(* From `const accounts = ...` on: a fetch is started when one is due and  *)
(* none is in flight; the request awaits the fetch in flight or responds.   *)
quotaSection(c, P) ==
    LET view == [lastQuotaSnapshot |-> P.lastQuotaSnapshot, lastQuotaAt |-> P.lastQuotaAt,
                 frame |-> P.req[c]]
        task == Running("quota", c)
        Q == IF shouldFetchQuota(view) /\ ~inFlight(P.quota)
             THEN [P EXCEPT !.quota = task, !.running = @ \cup {task}]
             ELSE P
    IN  IF inFlight(Q.quota)
        THEN /\ panel' = [Q EXCEPT !.req[c].pc = "quotaWait", !.req[c].waitFrom = now,
                                   !.req[c].awaited = {Q.quota}]
             /\ last' = [op |-> "getConfig", client |-> c]
        ELSE /\ panel' = [Q EXCEPT !.req[c] = NoRequest]
             /\ last' = [op |-> "config", client |-> c, status |-> 200]

(* A client's GET /routing/config up to its first await.  The clients are  *)
(* alike: a request is the one of the first client that has none in flight. *)
concurrentGet(c, listed) ==
    LET cleared == {p \in OtherProviders : Len(listed[p]) = 0}
        started == {p \in OtherProviders : startsSync(p, listed[p])}
        task(p) == Running(p, c)
        D1 == IF "copilot" \in cleared THEN clearDynamic("copilot", dynamicModels)
              ELSE dynamicModels
        D == IF "codex" \in cleared THEN clearDynamic("codex", D1) ELSE D1
        P == [panel EXCEPT
                 !.requests = @ + 1,
                 !.rested = FALSE,
                 !.req[c] = [NoRequest EXCEPT !.reqNow = now, !.waitFrom = now],
                 !.lastSyncAt = [p \in OtherProviders |->
                                    IF p \in cleared THEN 0
                                    ELSE IF p \in started THEN now ELSE @[p]],
                 !.sync = [p \in OtherProviders |->
                              IF p \in started THEN task(p) ELSE @[p]],
                 !.running = @ \cup {task(p) : p \in started},
                 !.lastStart = [p \in OtherProviders |->
                                   IF p \in started THEN now ELSE @[p]],
                 !.reset = [p \in OtherProviders |->
                               IF p \in cleared THEN TRUE
                               ELSE IF p \in started THEN FALSE ELSE @[p]]]
        waiters == {P.sync[p] : p \in {q \in OtherProviders : inFlight(P.sync[q])}}
    IN  /\ panel.req[c].pc = "idle"
        /\ \A d \in Clients : d < c => panel.req[d].pc # "idle"
        /\ panel.requests < MaxRequests
        /\ reload
        /\ dynamicModels' = D
        /\ IF waiters # {}
           THEN /\ panel' = [P EXCEPT !.req[c].pc = "syncWait", !.req[c].awaited = waiters]
                /\ last' = [op |-> "getConfig", client |-> c]
           ELSE quotaSection(c, P)
        /\ UNCHANGED <<now, panelVars, steps>>

(* The await of a client is over: every promise it waits for has settled   *)
(* or its timer has fired.                                                  *)
waitOver(c) ==
    /\ panel.req[c].pc # "idle"
    /\ \A t \in panel.req[c].awaited :
          t \notin panel.running \/ now >= panel.req[c].waitFrom + TimeoutOf(t.kind)

(* The request of a client goes on after an await. *)
goesOn(c) ==
    /\ waitOver(c)
    /\ IF panel.req[c].pc = "syncWait"
       THEN quotaSection(c, panel)
       ELSE /\ panel' = [panel EXCEPT !.req[c] = NoRequest]
            /\ last' = [op |-> "config", client |-> c, status |-> 200]
    /\ UNCHANGED <<now, dynamicModels, order, objs, panelVars, steps>>

(* A sync or a fetch ends, with or without a result: its `finally`. *)
ends(task, ok) ==
    /\ task \in panel.running
    /\ now >= task.due
    /\ IF task.kind = "quota"
       THEN /\ panel' = [panel EXCEPT
                            !.running = @ \ {task},
                            !.quota = NoPromise,
                            !.lastQuotaSnapshot = IF ok THEN task.startedAt ELSE @,
                            !.lastQuotaAt = IF ok THEN now ELSE @]
            /\ UNCHANGED dynamicModels
       ELSE /\ panel' = [panel EXCEPT !.running = @ \ {task},
                                      !.sync[task.kind] = NoPromise]
            /\ dynamicModels' =
                  IF ok THEN setDynamic(task.kind, dynamicModels, NewModels(task.kind))
                  ELSE clearDynamic(task.kind, dynamicModels)
    /\ UNCHANGED <<now, last, order, objs, panelVars, steps>>

(* The time that passes between two moments at which something happens:   *)
(* more than the soft timeouts and more than a sync's TTL.                  *)
FlightGaps == {61000}

(* Time passes by a gap, once after a request has started, while no        *)
(* request can go on.                                                       *)
flightTimePasses(t) ==
    /\ \A c \in Clients : ~waitOver(c)
    /\ (\E c \in Clients : panel.req[c].pc # "idle") \/ panel.requests < MaxRequests
    /\ ~panel.rested
    /\ t \in { now + g : g \in FlightGaps }
    /\ panel' = [panel EXCEPT !.rested = TRUE]
    /\ now' = t
    /\ UNCHANGED <<dynamicModels, last, order, objs, panelVars, steps>>

(* The time of the last sync of a provider when the server has answered a  *)
(* request before: never, or a second ago for copilot, a sync that has      *)
(* failed and ended since, as the quota fetch of that request has.          *)
EarlierSyncs ==
    { [p \in OtherProviders |-> 0],
      [p \in OtherProviders |-> IF p = "copilot" THEN StartNow - 1000 ELSE 0] }

InitFlight ==
    /\ now = StartNow
    /\ order = [i \in 1..PoolSize |-> i]
    /\ objs = [id \in AccountIds |-> Credentialed(id, id, "p")]
    /\ currentIndex = 0
    /\ lastUsedAccount = NoLastUsed
    /\ probeCalls = 0
    /\ gna = IdleFrame
    /\ RouterIdle
    /\ authStore = [p \in OtherProviders |-> [id \in AccountIds |-> NULL]]
    /\ locks = [l \in LockNames |-> <<>>]
    /\ lastCall = NULL
    /\ dataFile = [exists |-> TRUE,
                   accounts |-> [i \in 1..PoolSize |-> saved(Credentialed(i, i, "p"))]]
    /\ ide = NoIde
    /\ routing = NoRouting
    /\ dynamicModels = NoDynamic
    /\ \E earlier \in EarlierSyncs :
         panel = [requests |-> 0, rested |-> TRUE,
                req |-> [c \in Clients |-> NoRequest],
                lastSyncAt |-> earlier,
                sync |-> [p \in OtherProviders |-> NoPromise],
                quota |-> NoPromise, lastQuotaSnapshot |-> 0, lastQuotaAt |-> 0,
                running |-> {},
                lastStart |-> earlier,
                reset |-> [p \in OtherProviders |-> FALSE]]
    /\ steps = 0
    /\ last = [op |-> "init"]

ConcurrentGetStep ==
    \E c \in Clients, listed \in [OtherProviders -> Listings] : concurrentGet(c, listed)

GoesOnStep == \E c \in Clients : goesOn(c)

EndsStep == \E task \in panel.running, ok \in BOOLEAN : ends(task, ok)

FlightTimeStep ==
    \E t \in { now + g : g \in FlightGaps } : flightTimePasses(t)

NextFlight == ConcurrentGetStep \/ GoesOnStep \/ EndsStep \/ FlightTimeStep

SpecFlight == InitFlight /\ [][NextFlight]_vars

(* The syncs and fetches of one kind that are running. *)
RunningFor(kind) == {t \in panel.running : t.kind = kind}

(* The in-flight marker of a kind. *)
MarkerOf(kind) == IF kind = "quota" THEN panel.quota ELSE panel.sync[kind]

(* At most one sync per provider and at most one fetch are running. *)
OneInFlight == \A kind \in Kinds : Cardinality(RunningFor(kind)) <= 1

(* The marker of a kind is set exactly while a sync or a fetch of the kind *)
(* is running, and it is the promise of the one that is running.            *)
MarkerTracksRunning ==
    \A kind \in Kinds :
        IF inFlight(MarkerOf(kind)) THEN RunningFor(kind) = {MarkerOf(kind)}
        ELSE RunningFor(kind) = {}

(* The step starts a sync for the provider. *)
SyncStarts(p) == \E t \in panel'.running \ panel.running : t.kind = p

(* More than the TTL has passed since the provider's last sync started. *)
TtlPassed(p) == panel.lastStart[p] = 0 \/ now - panel.lastStart[p] > SYNC_TTL_MS(p)

(* C40: under concurrent GET /config requests at most one sync per provider *)
(* and at most one quota fetch are in flight, the marker is cleared when   *)
(* the sync or the fetch ends, and a sync starts only when none is in      *)
(* flight and more than 60 s have passed since the last one started.       *)
C40_SingleFlight ==
    /\ [](OneInFlight /\ MarkerTracksRunning)
    /\ [][\A p \in OtherProviders :
             SyncStarts(p) => RunningFor(p) = {} /\ TtlPassed(p)]_vars

(* C40 as the code has it: a sync also starts within the 60 s when a        *)
(* request since the last start found the provider without an account,     *)
(* which sets the time of the last sync back to 0.                          *)
C40_SingleFlightAmended ==
    /\ [](OneInFlight /\ MarkerTracksRunning)
    /\ [][\A p \in OtherProviders :
             SyncStarts(p) => RunningFor(p) = {} /\ (TtlPassed(p) \/ panel.reset[p])]_vars

(* Both clients wait for the same sync, which one of them started, while   *)
(* the sync of the other provider or a quota fetch is running as well.      *)
C40_Witness ==
    /\ \A c \in Clients : panel.req[c].pc = "syncWait"
    /\ \E t \in panel.running :
          /\ t.kind \in OtherProviders
          /\ \A c \in Clients : t \in panel.req[c].awaited
    /\ Cardinality(panel.running) >= 2

(* The ids of a list of options. *)
Ids(list) == { list[i].id : i \in 1..Len(list) }

(* A provider's model list when no dynamic model is stored. *)
StaticModels(provider) == getProviderModels(provider, NoDynamic)

(* A provider's model list when the sync has stored the models. *)
SyncedModels(provider, models) == getProviderModels(provider, setDynamic(provider, NoDynamic, models))

(* C24: GET /config waits at most 800 ms for a model sync; when the sync   *)
(* is slower the response has status 200 and the provider's static models,  *)
(* and a request made after the slow sync has completed returns the models  *)
(* it synced.                                                               *)
C24_SoftTimeout ==
    last.op = "config" =>
        /\ last.status = 200
        /\ last.frame.syncWaited <= COPILOT_SYNC_TIMEOUT_MS
        /\ \A p \in last.frame.timedOut : Ids(StaticModels(p)) \subseteq Ids(last.frame.models[p])
        /\ \A p \in OtherProviders :
              last.frame.slowSync[p].synced =>
                  Ids(SyncedModels(p, last.frame.slowSync[p].models))
                      \subseteq Ids(last.frame.models[p])

(* C24, amended: GET /config waits at most 800 ms for a model sync; when   *)
(* the sync is slower the response has status 200 and the model list as it  *)
(* was before the sync (the static list when no dynamic model was stored),  *)
(* and a request made after the slow sync has completed returns the models  *)
(* it synced as long as nothing has cleared or replaced them since.         *)
C24_SoftTimeoutAmended ==
    last.op = "config" =>
        /\ last.status = 200
        /\ last.frame.syncWaited <= COPILOT_SYNC_TIMEOUT_MS
        /\ \A p \in last.frame.timedOut :
              /\ last.frame.models[p] = getProviderModels(p, last.frame.before)
              /\ last.frame.fresh[p].by \in {"none", "cleared", "failed"} =>
                     last.frame.models[p] = StaticModels(p)
        /\ \A p \in OtherProviders :
              (last.frame.fresh[p].by = "synced" /\ last.frame.fresh[p].slow) =>
                  last.frame.models[p] = SyncedModels(p, last.frame.fresh[p].models)

C24_Witness ==
    /\ last.op = "config"
    /\ last.frame.timedOut = {"codex"}
    /\ last.frame.syncWaited = CODEX_SYNC_TIMEOUT_MS
    /\ last.frame.models["codex"] = StaticModels("codex")
    /\ last.frame.fresh["copilot"].by = "synced"
    /\ last.frame.fresh["copilot"].slow
    /\ last.frame.started = {"codex"}
    /\ last.frame.models["copilot"] = SyncedModels("copilot", KnownModels("copilot"))
    /\ last.frame.models["copilot"] # StaticModels("copilot")

(* C25: GET /config waits at most 1200 ms for the quota fetch; a request   *)
(* whose wait times out answers with the cached snapshot (null when there   *)
(* is none); a request made no more than 15 s after a fetch, however slow, *)
(* has completed answers with the snapshot of that fetch and starts no      *)
(* fetch.                                                                   *)
C25_QuotaCache ==
    last.op = "config" =>
        /\ last.status = 200
        /\ last.quotaWaited <= QUOTA_TIMEOUT_MS
        /\ last.quotaTimedOut => last.quota = last.frame.cachedSnapshot
        /\ ( /\ last.frame.cachedSnapshot # 0
             /\ last.frame.reqNow - last.frame.cachedAt <= QUOTA_TTL_MS ) =>
               /\ ~last.frame.fetchStarted
               /\ last.quota = last.frame.cachedSnapshot
               /\ last.quotaWaited = 0

C25_Witness ==
    /\ last.op = "config"
    /\ last.frame.cachedSlow
    /\ last.frame.cachedSnapshot # 0
    /\ last.frame.reqNow > last.frame.cachedAt
    /\ last.quota = last.frame.cachedSnapshot
    /\ ~last.frame.fetchStarted

(* C26: when the sync has failed for every account of a provider, or the   *)
(* provider has no account (no sync is started then), the response has      *)
(* status 200 and the provider's static model list.                         *)
C26_StaticFallback ==
    last.op = "config" =>
        /\ last.status = 200
        /\ \A p \in OtherProviders :
              /\ last.frame.fresh[p].by = "failed" => last.frame.models[p] = StaticModels(p)
              /\ last.frame.listed[p] = <<>> =>
                     /\ p \notin last.frame.started
                     /\ last.frame.models[p] = StaticModels(p)

----------------------------------------------------------------------------
(* The availability of an account over all the operations that write it.   *)

(* The account was rate-limited when the call recorded in `last` started. *)
LimitedAtStart(a) == Truthy(last.pre[a]) /\ last.pre[a] > last.startedAt

(* The account the scan of the call recorded in `last` looked at in its    *)
(* k-th attempt (k from 0).                                                 *)
ScanAt(k) ==
    LET n == Len(last.list)
        first == IF last.forceRotate THEN (last.cursor0 + 1) % n ELSE last.cursor0
    IN  last.list[((first + k) % n) + 1]

(* Selection passes over an account exactly while it is rate-limited: the  *)
(* account returned by the sticky window or by the scan was not rate-       *)
(* limited when the call started, whether or not it had been before, and    *)
(* every account the scan passed over was (or its token refresh failed).    *)
SkippedWhileLimited ==
    (GnaReturned /\ last.outcome = "account" /\ last.path \in {"sticky", "scan"}) =>
        /\ ~LimitedAtStart(last.accountId)
        /\ last.path = "scan" =>
              \E k \in 0..(Len(last.list) - 1) :
                 /\ ScanAt(k) = last.accountId
                 /\ \A j \in 0..(k - 1) :
                       LimitedAtStart(ScanAt(j)) \/ ScanAt(j) \in last.refreshFailed

(* The step is one of those that reset the failures of account id:         *)
(* markSuccess of the account, the optimistic reset (of every account), a   *)
(* quota check that found quota for the account.                            *)
ResetsFailures(id) ==
    \/ last'.op = "markSuccess" /\ last'.accountId = id
    \/ last'.op = "getNextAvailableAccount" /\ last'.path = "reset"
    \/ /\ last'.op = "getNextAvailableAccount"
       /\ last'.path = "quota"
       /\ last'.accountId = id
    \/ gna.pc = "probe" /\ gna'.pc = "probeProject" /\ gna'.acc = id

(* C29: selection passes over an account exactly while rateLimitedUntil >  *)
(* now, an account whose limit has elapsed is eligible again without any    *)
(* clear, and the consecutive failures of an account are reset to 0 only    *)
(* by markSuccess, by the optimistic reset and by a quota check that found  *)
(* quota.                                                                   *)
C29_AvailabilityStateMachine ==
    [][ /\ SkippedWhileLimited'
        /\ \A id \in AccountIds :
              ( /\ Has(id)
                /\ Has(id)'
                /\ objs[id].consecutiveFailures > 0
                /\ objs'[id].consecutiveFailures = 0 ) => ResetsFailures(id) ]_vars

----------------------------------------------------------------------------
(* IDE logout (services/antigravity/ide-switch.ts).  `ide` holds the IDE   *)
(* process (running, and the keys of the state it keeps in memory and      *)
(* writes back to state.vscdb when it exits), the database (exists, and db: *)
(* the value of each key of ItemTable) and the logoutIdeSession call in    *)
(* flight: pc, the number of polls made, whether isIdeRunning has answered *)
(* false (seenIdle), and the call's closeResult.wasRunning.                *)

IDE_AUTH_KEYS ==
    {"antigravityAuthStatus", "antigravityUnifiedStateSync.oauthToken",
     "antigravityUnifiedStateSync.userStatus"}

(* for (let i = 0; i < 30; i++) { await setTimeout(500) ... } and the wait *)
(* of 1000 ms for the database file to be flushed                          *)
POLL_ATTEMPTS == 30
POLL_INTERVAL_MS == 500
FLUSH_WAIT_MS == 1000

(* The keys of ItemTable in the model's runs *)
IdeKeys == IDE_AUTH_KEYS \cup {"antigravityOnboarding", "someOtherSetting"}

(* The databases a call may find: of a logged-in IDE, of the tests (no     *)
(* userStatus key), of a logged-out IDE.                                   *)
IdeDatabases ==
    { [k \in keys |-> "stored"] :
        keys \in {IdeKeys, IdeKeys \ {"antigravityUnifiedStateSync.userStatus"},
                  IdeKeys \ IDE_AUTH_KEYS} }

(* isIdeRunning(): pgrep finds the process, or exec throws and the catch   *)
(* answers false                                                           *)
isIdeRunning(thrown) == ide.running /\ ~thrown

(* The poll loop that goes on to clear the database when it gives up *)
afterPollClearsAnyway(observed, polls) ==
    IF ~observed THEN "flush" ELSE IF polls >= POLL_ATTEMPTS THEN "clear" ELSE "polling"

(* One round of the poll loop of gracefullyCloseIde: the process has gone  *)
(* (on to the 1 s flush wait), the last round has passed (closed: false),  *)
(* or another round.                                                       *)
afterPoll(observed, polls) ==
    IF ~observed THEN "flush" ELSE IF polls >= POLL_ATTEMPTS THEN "timeout" ELSE "polling"

(* The result of logoutIdeSession *)
logoutResult(success, error) ==
    [op |-> "logoutIdeSession", success |-> success, error |-> error,
     ideWasRunning |-> ide.wasRunning, startedAt |-> ide.startedAt, at |-> now',
     seenIdle |-> ide'.seenIdle, polls |-> ide'.polls]

ideVars == <<order, objs, currentIndex, lastUsedAccount, probeCalls, gna, routerVars,
             authStore, locks, lastCall, dataFile, routing, panel, dynamicModels>>

(* logoutIdeSession up to its first timer: the database path is tested,    *)
(* then gracefullyCloseIde asks whether the IDE runs and, if so, tells it  *)
(* to quit (osascript / pkill -TERM; `quitThrown`: exec rejects).          *)
logoutIdeSession(thrown, quitThrown) ==
    /\ ide.pc = "idle"
    /\ Step
    /\ UNCHANGED <<now, ideVars>>
    /\ LET call == [ide EXCEPT !.startedAt = now, !.polls = 0, !.seenIdle = FALSE,
                               !.wasRunning = FALSE]
       IN  IF ~ide.exists
           THEN /\ ide' = call
                /\ last' = logoutResult(FALSE, "not found")
           ELSE IF ~isIdeRunning(thrown)
           THEN /\ ide' = [call EXCEPT !.pc = "clear", !.seenIdle = TRUE]
                /\ last' = Awaiting
           ELSE IF quitThrown
           THEN /\ ide' = [call EXCEPT !.wasRunning = TRUE]
                /\ last' = logoutResult(FALSE, "failed to close")
           ELSE /\ ide' = [call EXCEPT !.pc = "polling", !.wasRunning = TRUE]
                /\ last' = Awaiting

(* A round of the poll loop: 500 ms pass, then isIdeRunning() *)
poll(thrown) ==
    /\ ide.pc = "polling"
    /\ now' = now + POLL_INTERVAL_MS
    /\ UNCHANGED <<ideVars, steps>>
    /\ LET next == afterPoll(isIdeRunning(thrown), ide.polls + 1)
       IN  IF next = "timeout"
           THEN /\ ide' = [ide EXCEPT !.pc = "idle", !.polls = @ + 1]
                /\ last' = logoutResult(FALSE, "timeout")
           ELSE /\ ide' = [ide EXCEPT !.pc = next, !.polls = @ + 1,
                                      !.seenIdle = (next = "flush") \/ @]
                /\ last' = Awaiting

(* The wait of 1 s after the process was seen gone *)
flush ==
    /\ ide.pc = "flush"
    /\ now' = now + FLUSH_WAIT_MS
    /\ ide' = [ide EXCEPT !.pc = "clear"]
    /\ last' = Awaiting
    /\ UNCHANGED <<ideVars, steps>>

(* ItemTable after DELETE FROM ItemTable WHERE key = ? for each key of `keys` *)
deleted(db, keys) == [k \in (DOMAIN db) \ keys |-> db[k]]

(* The auth keys deleted before a statement throws: none (the database     *)
(* cannot be opened), or the first one or two of IDE_AUTH_KEYS             *)
PartialDeletes ==
    { {}, {"antigravityAuthStatus"},
      {"antigravityAuthStatus", "antigravityUnifiedStateSync.oauthToken"} }

(* Step 2 of logoutIdeSession: the deletes succeed, or one throws after    *)
(* the keys `done` have been deleted                                       *)
clear(thrown, done) ==
    /\ ide.pc = "clear"
    /\ UNCHANGED <<now, ideVars, steps>>
    /\ IF thrown
       THEN /\ ide' = [ide EXCEPT !.pc = "idle", !.db = deleted(@, done)]
            /\ last' = logoutResult(FALSE, "failed to clear")
       ELSE /\ ide' = [ide EXCEPT !.pc = "idle", !.db = deleted(@, IDE_AUTH_KEYS)]
            /\ last' = logoutResult(TRUE, "")

(* The IDE process exits (asked to or not) and writes the state it holds   *)
(* in memory back to the database.                                         *)
ideExits ==
    /\ ide.running
    /\ ide' = [ide EXCEPT !.running = FALSE,
                          !.db = [k \in (DOMAIN ide.db) \cup ide.mem |->
                                     IF k \in ide.mem THEN "written back" ELSE ide.db[k]]]
    /\ UNCHANGED <<now, ideVars, steps, last>>

(* The user starts the IDE, which reads the database into memory. *)
ideStarts ==
    /\ ~ide.running
    /\ ide.exists
    /\ Step
    /\ ide' = [ide EXCEPT !.running = TRUE, !.mem = DOMAIN ide.db]
    /\ UNCHANGED <<now, ideVars, last>>

InitIde ==
    /\ now = StartNow
    /\ order = <<>>
    /\ objs = [id \in AccountIds |-> Account(id, 0, "p")]
    /\ currentIndex = 0
    /\ lastUsedAccount = NoLastUsed
    /\ probeCalls = 0
    /\ gna = IdleFrame
    /\ RouterIdle
    /\ authStore = [p \in OtherProviders |-> [id \in AccountIds |-> NULL]]
    /\ locks = [l \in LockNames |-> <<>>]
    /\ lastCall = NULL
    /\ dataFile = NoFile
    /\ routing = NoRouting
    /\ panel = PanelIdle
    /\ dynamicModels = NoDynamic
    /\ steps = 0
    /\ last = [op |-> "init"]
    /\ \E exists \in BOOLEAN, running \in BOOLEAN, db \in IdeDatabases :
          /\ running => exists
          /\ ~exists => db = [k \in {} |-> "stored"]
          /\ ide = [pc |-> "idle", exists |-> exists, db |-> db, running |-> running,
                    mem |-> IF running THEN IdeKeys ELSE {}, polls |-> 0,
                    seenIdle |-> FALSE, wasRunning |-> FALSE, startedAt |-> NULL]

LogoutStep == \E thrown \in BOOLEAN, quitThrown \in BOOLEAN : logoutIdeSession(thrown, quitThrown)

PollStep == \E thrown \in BOOLEAN : poll(thrown)

FlushStep == flush

ClearStep == \E thrown \in BOOLEAN, done \in PartialDeletes : clear(thrown, done)

IdeExitsStep == ideExits

IdeStartsStep == ideStarts

NextIde == LogoutStep \/ PollStep \/ FlushStep \/ ClearStep \/ IdeExitsStep \/ IdeStartsStep

SpecIde == InitIde /\ [][NextIde]_vars

(* The step is made by logoutIdeSession and writes the database. *)
LogoutWrites == ide.pc # "idle" /\ ide'.running = ide.running /\ ide'.db # ide.db

(* C36: logoutIdeSession writes the database only in its clearing step,    *)
(* which it reaches only after isIdeRunning has answered that the IDE is   *)
(* not running (at the start, or in the poll loop after the quit request);  *)
(* a call whose poll loop ends with the IDE still running fails after 15 s *)
(* of waiting and has not written the database; a successful call has      *)
(* removed the three auth keys and left every other key with its value.    *)
C36_LogoutFrame ==
    [][ /\ LogoutWrites =>
              /\ ide.pc = "clear"
              /\ ide.seenIdle
              /\ \E keys \in SUBSET IDE_AUTH_KEYS : ide'.db = deleted(ide.db, keys)
        /\ (last'.op = "logoutIdeSession" /\ ide.pc # "idle") =>
              /\ last'.error = "timeout" =>
                    /\ ~last'.success
                    /\ ide'.db = ide.db
                    /\ ide.pc = "polling"
                    /\ last'.at - last'.startedAt >= 15000
              /\ last'.success =>
                    /\ ide.pc = "clear"
                    /\ last'.seenIdle
                    /\ DOMAIN ide'.db = (DOMAIN ide.db) \ IDE_AUTH_KEYS
                    /\ \A k \in DOMAIN ide'.db : ide'.db[k] = ide.db[k] ]_vars

(* A call that found the IDE running, saw it gone in its poll loop and     *)
(* then removed the three auth keys, the onboarding key still stored.      *)
C36_Witness ==
    /\ last.op = "logoutIdeSession"
    /\ last.success
    /\ last.ideWasRunning
    /\ last.polls > 1
    /\ DOMAIN ide.db = {"antigravityOnboarding", "someOtherSetting"}
    /\ ide.db["antigravityOnboarding"] = "written back"

----------------------------------------------------------------------------
(* Locks.  Lock 0 is the global RateLimiter; lock id is the per-account     *)
(* lock of antigravity account id.  A lock is a chain of promises: each     *)
(* acquisition takes the promise left by the one before it and leaves its   *)
(* own, which its release function resolves.  An acquisition is "queued"    *)
(* (awaiting the promise before it), "sleeping" (awaiting the interval      *)
(* timer), "held" (acquireExclusive has resolved), or "released".           *)

MIN_INTERVAL_MS == 1000

MaxLockSteps == 5

MaxReleaseCalls == 2

(* A call of wait() or acquireExclusive(): its position in the promise      *)
(* chain.  status: "queued" (awaiting currentQueue), "sleeping" (in the      *)
(* interval timer), "held" (the release function was returned and not yet   *)
(* called), "released", or "passed" (a wait() call that has resolved the    *)
(* next promise).  grantedAt is the time of `this.lastCall = Date.now()`    *)
(* after the interval check, releasedAt the time of resolveNext().          *)
Ticket == [status |-> "queued", wakeAt |-> NULL, calls |-> 0, kind |-> "exclusive",
           grantedAt |-> NULL, releasedAt |-> NULL]

(* The promise every acquisition starts from counts as position 0. *)
AlwaysResolved(l, k) == TRUE

(* The promise left by acquisition k of lock l is resolved. *)
Resolved(l, k) == IF k = 0 THEN TRUE ELSE locks[l][k].status \in {"released", "passed"}

LockStep == /\ steps < MaxLockSteps
            /\ steps' = steps + 1

(* acquireExclusive(), up to `await currentQueue` *)
acquireExclusive(l) ==
    /\ LockStep
    /\ locks' = [locks EXCEPT ![l] = Append(@, Ticket)]
    /\ last' = [op |-> "acquire", lock |-> l, ticket |-> Len(locks[l]) + 1]
    /\ UNCHANGED <<storeVars, routerVars, authStore, lastCall, hostVars>>

(* wait(), up to `await currentQueue` *)
wait(l) ==
    /\ LockStep
    /\ locks' = [locks EXCEPT ![l] = Append(@, [Ticket EXCEPT !.kind = "wait"])]
    /\ last' = [op |-> "wait", lock |-> l, ticket |-> Len(locks[l]) + 1]
    /\ UNCHANGED <<storeVars, routerVars, authStore, lastCall, hostVars>>

(* A grant that resolves the next promise whatever the call *)
grantedPassesOn(ticket, t) ==
    IF ticket.kind = "wait"
    THEN [ticket EXCEPT !.status = "passed", !.grantedAt = t, !.releasedAt = t]
    ELSE [ticket EXCEPT !.status = "passed", !.grantedAt = t]

(* The call after its interval check: this.lastCall = Date.now(), and then *)
(* wait() calls resolveNext() while acquireExclusive() returns the release *)
(* function.                                                               *)
granted(ticket, t) ==
    IF ticket.kind = "wait"
    THEN [ticket EXCEPT !.status = "passed", !.grantedAt = t, !.releasedAt = t]
    ELSE [ticket EXCEPT !.status = "held", !.grantedAt = t]

(* The interval check that never finds the interval too short *)
noInterval(l) == FALSE

(* lastCall !== null && Date.now() - lastCall < minInterval *)
tooEarly(l) == l = 0 /\ lastCall # NULL /\ now - lastCall < MIN_INTERVAL_MS

(* wait() and acquireExclusive() after `await currentQueue`: the interval  *)
(* check, then the timer or the grant                                      *)
proceed(l, k) ==
    /\ locks[l][k].status = "queued"
    /\ Resolved(l, k - 1)
    /\ IF tooEarly(l)
       THEN /\ locks' = [locks EXCEPT ![l][k].status = "sleeping",
                                      ![l][k].wakeAt = lastCall + MIN_INTERVAL_MS]
            /\ UNCHANGED lastCall
       ELSE /\ locks' = [locks EXCEPT ![l][k] = granted(@, now)]
            /\ lastCall' = IF l = 0 THEN now ELSE lastCall
    /\ last' = [op |-> "proceed", lock |-> l, ticket |-> k]
    /\ UNCHANGED <<storeVars, routerVars, authStore, hostVars, steps>>

(* the interval timer fires *)
wake(l, k) ==
    /\ locks[l][k].status = "sleeping"
    /\ now >= locks[l][k].wakeAt
    /\ locks' = [locks EXCEPT ![l][k] = granted(@, now)]
    /\ lastCall' = now
    /\ last' = [op |-> "proceed", lock |-> l, ticket |-> k]
    /\ UNCHANGED <<storeVars, routerVars, authStore, hostVars, steps>>

ReleaseRecord(l, k) ==
    [op |-> "release", lock |-> l, ticket |-> k, first |-> locks[l][k].status = "held",
     before |-> locks, lastCallBefore |-> lastCall, at |-> now]

(* The release function without its `released` flag *)
releaseUnguarded(l, k) ==
    /\ locks[l][k].status \in {"held", "released"}
    /\ locks[l][k].calls < MaxReleaseCalls
    /\ LockStep
    /\ locks' = [locks EXCEPT ![l][k].status = "released", ![l][k].calls = @ + 1,
                              ![l][k].releasedAt = now]
    /\ lastCall' = IF l = 0 THEN now ELSE lastCall
    /\ last' = ReleaseRecord(l, k)
    /\ UNCHANGED <<storeVars, routerVars, authStore, hostVars>>

(* A call of the release function that acquisition k of lock l returned. *)
release(l, k) ==
    /\ locks[l][k].status \in {"held", "released"}
    /\ locks[l][k].calls < MaxReleaseCalls
    /\ LockStep
    /\ IF locks[l][k].status = "held"
       THEN /\ locks' = [locks EXCEPT ![l][k].status = "released", ![l][k].calls = @ + 1,
                                      ![l][k].releasedAt = now]
            /\ lastCall' = IF l = 0 THEN now ELSE lastCall
       ELSE /\ locks' = [locks EXCEPT ![l][k].calls = @ + 1]
            /\ UNCHANGED lastCall
    /\ last' = ReleaseRecord(l, k)
    /\ UNCHANGED <<storeVars, routerVars, authStore, hostVars>>

(* accountManager.isAccountInFlight(accountId) *)
isAccountInFlight(id) == \E k \in 1..Len(locks[id]) : locks[id][k].status = "held"

isInFlight(provider, id) ==
    IF provider = "antigravity" THEN isAccountInFlight(id) ELSE FALSE

(* accountSelector.acquireLock(provider, accountId) *)
acquireLock(provider, accountId) ==
    IF provider = "antigravity"
    THEN acquireExclusive(accountId)
    ELSE \* "No locking for other providers": resolves at once with () => {}
         /\ LockStep
         /\ last' = [op |-> "acquireLock", provider |-> provider, accountId |-> accountId,
                     resolved |-> TRUE, before |-> locks]
         /\ UNCHANGED <<storeVars, routerVars, sideVars>>

LockTick(d) ==
    /\ LockStep
    /\ now' = now + d
    /\ last' = [op |-> "tick"]
    /\ UNCHANGED <<order, objs, currentIndex, lastUsedAccount, probeCalls, gna, routerVars,
                   sideVars>>

(* The locks of the model's runs: the RateLimiter and the accounts of the pool. *)
LockSet == 0..PoolSize

InitLock ==
    /\ now = StartNow
    /\ order = [i \in 1..PoolSize |-> i]
    /\ objs = [id \in AccountIds |-> Account(id, 0, "p")]
    /\ currentIndex = 0
    /\ lastUsedAccount = NoLastUsed
    /\ probeCalls = 0
    /\ gna = IdleFrame
    /\ RouterIdle
    /\ SideIdle
    /\ steps = 0
    /\ last = [op |-> "init"]

AcquireExclusiveStep == acquireExclusive(0)

AcquireLockStep == \E p \in Providers, id \in LockSet \ {0} : acquireLock(p, id)

ProceedStep == \E l \in LockSet : \E k \in 1..Len(locks[l]) : proceed(l, k)

WakeStep == \E k \in 1..Len(locks[0]) : wake(0, k)

ReleaseStep == \E l \in LockSet : \E k \in 1..Len(locks[l]) : release(l, k)

LockTickStep == \E d \in {500, MIN_INTERVAL_MS} : LockTick(d)

NextLock ==
    \/ AcquireExclusiveStep \/ AcquireLockStep \/ ProceedStep \/ WakeStep
    \/ ReleaseStep \/ LockTickStep

SpecLock == InitLock /\ [][NextLock]_vars

(* The acquisitions of lock l that have been admitted and not released. *)
Admitted(l) == { k \in 1..Len(locks[l]) : locks[l][k].status \in {"sleeping", "held"} }

(* The chains with the count of release calls left out. *)
Statuses(L) == [l \in LockNames |-> [k \in 1..Len(L[l]) |-> L[l][k].status]]

(* C17: a second call of a release function has no effect: the chains and   *)
(* lastCall are as before it; and whatever releases are repeated, a lock    *)
(* never has two acquisitions admitted at once, and an acquisition admitted *)
(* later stays admitted until its own release.                              *)
C17_ReleaseIdempotent ==
    /\ (last.op = "release" /\ ~last.first) =>
          /\ Statuses(locks) = Statuses(last.before)
          /\ lastCall = last.lastCallBefore
    /\ \A l \in LockNames : Cardinality(Admitted(l)) <= 1

C17_Witness ==
    /\ last.op = "release"
    /\ ~last.first
    /\ last.lock = 0
    /\ last.at > last.lastCallBefore
    /\ \E k \in Admitted(0) : k > last.ticket

(* C18: for antigravity, while an acquisition of an account's lock is held  *)
(* every later acquisition of that lock is still queued and every earlier   *)
(* one released, and isInFlight reports true for that account exactly       *)
(* then; for codex and copilot acquireLock resolves at once, touches no     *)
(* lock, and isInFlight is false.                                           *)
C18_ExclusiveAccountLock ==
    /\ \A id \in AccountIds :
          /\ \A k \in 1..Len(locks[id]) :
                locks[id][k].status = "held" =>
                   /\ \A j \in 1..(k - 1) : locks[id][j].status = "released"
                   /\ \A j \in (k + 1)..Len(locks[id]) : locks[id][j].status = "queued"
          /\ isInFlight("antigravity", id) <=> Admitted(id) # {}
          /\ \A p \in OtherProviders : ~isInFlight(p, id)
    /\ (last.op = "acquireLock" /\ last.provider \in OtherProviders) =>
          /\ last.resolved
          /\ locks = last.before

C18_Witness ==
    /\ isInFlight("antigravity", 1)
    /\ Len(locks[1]) = 3
    /\ locks[1][1].status = "released"
    /\ locks[1][2].status = "held"
    /\ locks[1][3].status = "queued"
    /\ ~isInFlight("antigravity", 2)

----------------------------------------------------------------------------
(* The RateLimiter alone, called through wait() and acquireExclusive() in  *)
(* any interleaving.                                                       *)

WaitStep == wait(0)

NextLimiter ==
    \/ WaitStep \/ AcquireExclusiveStep \/ ProceedStep \/ WakeStep
    \/ ReleaseStep \/ LockTickStep

SpecLimiter == InitLock /\ [][NextLimiter]_vars

(* The calls of the RateLimiter, in the order they were made *)
Calls == locks[0]

Granted(k) == Calls[k].grantedAt # NULL

(* The time from which the interval to the next grant is measured: the     *)
(* grant of a wait() call, the release of an acquireExclusive() call.      *)
HandedOnAt(k) == IF Calls[k].kind = "wait" THEN Calls[k].grantedAt ELSE Calls[k].releasedAt

(* C34: at most one acquireExclusive() caller holds the permit, and no      *)
(* call is in its interval timer or granted next while one holds it; the   *)
(* calls are granted in the order they were made; a call is granted only   *)
(* after every earlier acquireExclusive() caller has released; and a       *)
(* wait() caller has passed the queue on from its grant.                   *)
C34_ExclusiveFifo ==
    /\ Cardinality({k \in 1..Len(Calls) : Calls[k].status \in {"sleeping", "held"}}) <= 1
    /\ \A k \in 1..Len(Calls) :
          /\ Granted(k) =>
                \A j \in 1..(k - 1) :
                   /\ Granted(j)
                   /\ Calls[j].grantedAt <= Calls[k].grantedAt
                   /\ Calls[j].releasedAt # NULL
                   /\ Calls[j].releasedAt <= Calls[k].grantedAt
          /\ Calls[k].status = "held" <=>
                (Calls[k].kind = "exclusive" /\ Granted(k) /\ Calls[k].releasedAt = NULL)
          /\ (Calls[k].kind = "wait" /\ Granted(k)) =>
                (Resolved(0, k) /\ Calls[k].releasedAt = Calls[k].grantedAt)

(* A wait() call was granted and passed the queue on, the acquireExclusive() *)
(* call after it holds the permit, and a third call is queued behind it.     *)
C34_Witness ==
    /\ Len(Calls) >= 3
    /\ Calls[1].kind = "wait" /\ Calls[1].status = "passed"
    /\ Calls[2].kind = "exclusive" /\ Calls[2].status = "held"
    /\ Calls[3].status = "queued"

(* C35: every grant but the first comes at least MIN_INTERVAL_MS after the  *)
(* previous call handed the queue on: after the grant of a wait() call,    *)
(* after the release of an acquireExclusive() call.                        *)
C35_GrantSpacing ==
    \A k \in 2..Len(Calls) :
        Granted(k) => Calls[k].grantedAt - HandedOnAt(k - 1) >= MIN_INTERVAL_MS

(* An acquireExclusive() caller released 500 ms after its grant, and the   *)
(* wait() call behind it was granted one interval after that release.      *)
C35_Witness ==
    /\ Len(Calls) >= 2
    /\ Calls[1].kind = "exclusive" /\ Calls[2].kind = "wait" /\ Granted(2)
    /\ Calls[1].releasedAt > Calls[1].grantedAt
    /\ Calls[2].grantedAt = Calls[1].releasedAt + MIN_INTERVAL_MS

----------------------------------------------------------------------------
(* The router: flow routing with the sticky cursor, account routing *)

(* The entries of a flow, in priority order: one entry per account. *)
FlowEntries(f) == [i \in 1..ChainLen |-> [accountId |-> i]]

(* The account-routing entries of the requested model, in order. *)
AccountRoute == [i \in 1..ChainLen |-> [accountId |-> i]]

UpstreamKinds == {"ok", "lastOne", "quota", "quotaRetry", "notFound", "forbidden"}

(* What the completion function answers for an account in that state. *)
Response(kind) ==
    CASE kind = "quota"      -> [statusCode |-> 429, body |-> quotaErrorBody,
                                 retryAfterHeader |-> NULL]
      [] kind = "quotaRetry" -> [statusCode |-> 429, body |-> quotaErrorBody,
                                 retryAfterHeader |-> 30]
      [] kind = "notFound"   -> [statusCode |-> 404,
                                 body |-> Body(FALSE, <<>>, "not found", NULL),
                                 retryAfterHeader |-> NULL]
      [] kind = "forbidden"  -> [statusCode |-> 403,
                                 body |-> Body(FALSE, <<>>, "permission denied", NULL),
                                 retryAfterHeader |-> NULL]
      [] OTHER               -> [statusCode |-> 200, body |-> Body(TRUE, <<>>, "", NULL),
                                 retryAfterHeader |-> NULL]

(* The failure gate, with a hard error never rotating. *)
NeverHard(statusCode) == FALSE

(* The failure gate: 403 and 404 are raised at once, nothing is marked. *)
isHardError(statusCode) == statusCode \in {403, 404}

(* The sticky pass starting at the head of the chain whatever the cursor. *)
StartAtHead(f) == 0

(* Where the sticky pass starts (0-based): at the sticky index if there   *)
(* is one and its account is not rate-limited, else at index 0.            *)
StartIndex(f) ==
    LET c == sticky[f]
    IN  IF /\ c # NoSticky
           /\ c.lastIndex < Len(FlowEntries(f))
           /\ FlowEntries(f)[c.lastIndex + 1].accountId = c.lastAccountId
           /\ ~isAccountRateLimited(c.lastAccountId)
        THEN c.lastIndex
        ELSE 0

(* A pass that stops after its first entry. *)
OnlyStart(s, n) == <<s>>

(* The chain positions (0-based) in the order a pass visits them: from s  *)
(* around the chain, each position once.                                   *)
Candidates(s, n) == [k \in 1..n |-> (s + k - 1) % n]

(* The fallback taking the last entry of the chain. *)
FallbackLast(f) == Len(FlowEntries(f)) - 1

(* The entry of the fallback attempt: the flow's raw positional cursor. *)
FallbackIndex(f) == flowCursor[f] % Len(FlowEntries(f))

(* A success that leaves the sticky cursor where it was. *)
StickyKept(f, r) == sticky[f]

(* The sticky cursor after a pass with result r. *)
StickyAfter(f, r) ==
    IF r.outcome = "ok"
    THEN [lastIndex |-> r.index, lastAccountId |-> FlowEntries(f)[r.index + 1].accountId]
    ELSE sticky[f]

NoAttempts(O, U) ==
    [outcome |-> "none", order |-> <<>>, marks |-> <<>>, statusCode |-> NULL, body |-> NULL,
     index |-> NULL, objs |-> O, upstream |-> U]

(* The error of a pass kept from its first failing attempt. *)
firstError(r, res) ==
    IF r.statusCode = NULL
    THEN [statusCode |-> res.statusCode, body |-> res.body]
    ELSE [statusCode |-> r.statusCode, body |-> r.body]

(* The error a pass raises when it ends without a success: the status and *)
(* body of the attempt that failed last.                                   *)
lastError(r, res) == [statusCode |-> res.statusCode, body |-> res.body]

(* One pass over the positions `cands`, one attempt at a time: an entry    *)
(* the selector reports rate-limited is skipped (when skipLimited), a      *)
(* success ends the pass, a hard error is raised at once, a rate-limit     *)
(* failure is recorded with markRateLimitedFromError and the pass moves    *)
(* on.  r accumulates the attempts, the marks, the store and the upstream. *)
RECURSIVE Attempts(_, _, _, _, _)
Attempts(entries, cands, skipLimited, t, r) ==
    IF cands = <<>> THEN r
    ELSE LET i == Head(cands)
             a == entries[i + 1].accountId
             kind == r.upstream[a]
             res == Response(kind)
             tried == Append(r.order, i)
         IN  IF skipLimited /\ limitedAt(r.objs[a], t)
             THEN Attempts(entries, Tail(cands), skipLimited, t, r)
             ELSE IF res.statusCode = 200
             THEN [r EXCEPT !.outcome = "ok", !.order = tried, !.index = i,
                            !.statusCode = 200, !.body = res.body,
                            !.objs[a].rateLimitedUntil = NULL,
                            !.objs[a].consecutiveFailures = 0,
                            !.upstream[a] = IF kind = "lastOne" THEN "quota" ELSE kind]
             ELSE IF isHardError(res.statusCode)
             THEN [r EXCEPT !.outcome = "error", !.order = tried, !.index = i,
                            !.statusCode = lastError(r, res).statusCode,
                            !.body = lastError(r, res).body]
             ELSE Attempts(entries, Tail(cands), skipLimited, t,
                           [r EXCEPT !.outcome = "error", !.order = tried, !.index = i,
                                     !.statusCode = lastError(r, res).statusCode,
                                     !.body = lastError(r, res).body,
                                     !.marks = Append(r.marks, a),
                                     !.objs[a] = MarkFromError(r.objs[a], res.statusCode,
                                                     res.body, res.retryAfterHeader,
                                                     t).account])

CallRecord(op, model, f, r) ==
    [op |-> op, model |-> model, flow |-> f, order |-> r.order, outcome |-> r.outcome, statusCode |-> r.statusCode,
     body |-> r.body, marks |-> r.marks, index |-> r.index, stickyBefore |-> sticky, cursorBefore |-> flowCursor,
     at |-> now, before |-> objs, upstreamAt |-> upstream,
     history |-> IF op = "routeFlow" THEN Append(last.history, r.order) ELSE last.history]

(* A request for `model` routed through flow f. *)
RoutedFlow(model, f) ==
    LET entries == FlowEntries(f)
        pass == Attempts(entries, Candidates(StartIndex(f), Len(entries)), TRUE, now,
                         NoAttempts(objs, upstream))
        r == IF pass.order = <<>>
             THEN Attempts(entries, <<FallbackIndex(f)>>, FALSE, now, pass)
             ELSE pass
    IN  /\ gna.pc = "idle"
        /\ sticky' = [sticky EXCEPT ![f] = StickyAfter(f, r)]
        /\ flowCursor' = [flowCursor EXCEPT ![f] = IF r.outcome = "ok" THEN r.index ELSE @]
        /\ objs' = r.objs
        /\ upstream' = r.upstream
        /\ last' = CallRecord("routeFlow", model, f, r)
        /\ UNCHANGED <<now, order, currentIndex, lastUsedAccount, probeCalls, gna, sideVars>>

(* A request whose model is the name of flow f. *)
RouteFlow(f) == RoutedFlow(f, f)

(* A request routed through the account-routing entries of its model:     *)
(* the entries in order from the first, no stickiness.                     *)
RoutedAccount(model) ==
    LET entries == AccountRoute
        r == Attempts(entries, Candidates(0, Len(entries)), TRUE, now,
                      NoAttempts(objs, upstream))
    IN  /\ gna.pc = "idle"
        /\ objs' = r.objs
        /\ upstream' = r.upstream
        /\ last' = CallRecord("routeAccount", model, "", r)
        /\ UNCHANGED <<now, order, currentIndex, lastUsedAccount, probeCalls, gna, sticky,
                       flowCursor, sideVars>>

(* A request for an official model with configured entries. *)
RouteAccount == RoutedAccount("claude-routed")

(* The model ids a request can carry: the name of a flow; a flow name     *)
(* behind the route: prefix; the id of a flow; an official model with     *)
(* account-routing entries; an official model without entries, whose      *)
(* provider has the accounts of the pool; a dynamic official model of a   *)
(* provider without accounts; an id that is none of these.                *)
OfficialModels == {"claude-routed", "claude-unrouted", "gpt-5.2-new"}

PrefixedModels == {"route:flow-head", "route:claude-routed", "route:gone"}

FlowIds == {"flow-1"}

Models == Flows \cup OfficialModels \cup PrefixedModels \cup FlowIds \cup {"unknown-model"}

(* What follows the route: prefix of a model id; "" without the prefix. *)
routeName(model) ==
    CASE model = "route:flow-head"     -> "flow-head"
      [] model = "route:claude-routed" -> "claude-routed"
      [] model = "route:gone"          -> "gone"
      [] OTHER                         -> ""

(* The routing configurations: the smartSwitch flag, the name the user    *)
(* gave the configured flow (a name of its own or that of an official     *)
(* model), and the id of the flow designated active, "" when none is.     *)
Configs ==
    [smartSwitch : BOOLEAN, flowName : {"flow-head", "claude-routed"}, activeFlowId : {""} \cup FlowIds]

(* The flow a model id names under a configuration, "" when it names none: *)
(* by the flow's name, by its name behind route:, or as the active flow.   *)
FlowFor(model, config) ==
    IF \/ model = config.flowName
       \/ routeName(model) = config.flowName
       \/ config.activeFlowId # "" /\ model = config.activeFlowId
    THEN "flow-head"
    ELSE ""

(* The account-routing entries of a model: the configured ones, else with *)
(* smartSwitch every known account of the model's provider.               *)
RoutingEntries(model, config) ==
    CASE model = "claude-routed" -> AccountRoute
      [] model = "claude-unrouted" /\ config.smartSwitch -> AccountRoute
      [] OTHER -> <<>>

(* A resolution that sends every official model to account routing. *)
ResolveOfficial(model, config) ==
    IF FlowFor(model, config) # "" THEN "flow"
    ELSE IF model \in OfficialModels THEN "account"
    ELSE "none"

(* A resolution that looks at the account-routing entries first. *)
ResolveAccountFirst(model, config) ==
    IF model \in OfficialModels /\ RoutingEntries(model, config) # <<>> THEN "account"
    ELSE IF FlowFor(model, config) # "" THEN "flow"
    ELSE "none"

(* How a model id resolves: a flow it names, else account routing if the *)
(* model is official and has entries, else nothing.                       *)
Resolve(model, config) ==
    IF FlowFor(model, config) # "" THEN "flow"
    ELSE IF model \in OfficialModels /\ RoutingEntries(model, config) # <<>> THEN "account"
    ELSE "none"

(* The request is refused: nothing is attempted, nothing changes. *)
Unrouted(model) ==
    /\ gna.pc = "idle"
    /\ last' = [op |-> "routeError", model |-> model, statusCode |-> 400,
                message |-> <<"No account routing configured for model", model>>,
                order |-> <<>>, marks |-> <<>>, outcome |-> "error", at |-> now,
                history |-> last.history]
    /\ UNCHANGED <<storeVars, routerVars, sideVars>>

createRoutedCompletion(model, config) ==
    CASE Resolve(model, config) = "flow" -> RoutedFlow(model, FlowFor(model, config))
      [] Resolve(model, config) = "account" -> RoutedAccount(model)
      [] OTHER -> Unrouted(model)

----------------------------------------------------------------------------
(* The router over a pool of ChainLen accounts *)

RouterStep == /\ steps < MaxRouterSteps
              /\ steps' = steps + 1

(* The accounts rate-limited before the first routed call: none, one, or  *)
(* all of them.                                                           *)
InitLimited == {{}, AccountIds} \cup {{id} : id \in AccountIds}

InitRouter ==
    /\ now = StartNow
    /\ order = [i \in 1..ChainLen |-> i]
    /\ objs \in { [id \in AccountIds |->
                      InitAccount(id, IF id \in limited THEN StartNow + 60000 ELSE NULL, "p")] :
                   limited \in InitLimited }
    /\ currentIndex = 0
    /\ lastUsedAccount = NoLastUsed
    /\ probeCalls = 0
    /\ gna = IdleFrame
    /\ sticky = [f \in Flows |-> NoSticky]
    /\ flowCursor = [f \in Flows |-> 0]
    /\ upstream \in [AccountIds -> UpstreamKinds]
    /\ SideIdle
    /\ steps = 0
    /\ last = [op |-> "none", history |-> <<>>]

RouteFlowStep == \E f \in Flows : RouterStep /\ RouteFlow(f)

RouteAccountStep == RouterStep /\ RouteAccount

(* The rate limits recorded so far run out. *)
RouterTickStep ==
    /\ RouterStep
    /\ now' = now + 60000
    /\ UNCHANGED <<order, objs, currentIndex, lastUsedAccount, probeCalls, gna, routerVars, sideVars,
                   last>>

NextRouter == RouteFlowStep \/ RouteAccountStep \/ RouterTickStep

SpecRouter == InitRouter /\ [][NextRouter]_vars

(* The router with requests for every model id, over a pool whose accounts *)
(* all answer alike.                                                       *)
InitResolve ==
    /\ now = StartNow
    /\ order = [i \in 1..ChainLen |-> i]
    /\ objs \in { [id \in AccountIds |->
                      InitAccount(id, IF id \in limited THEN StartNow + 60000 ELSE NULL, "p")] :
                   limited \in InitLimited }
    /\ currentIndex = 0
    /\ lastUsedAccount = NoLastUsed
    /\ probeCalls = 0
    /\ gna = IdleFrame
    /\ sticky = [f \in Flows |-> NoSticky]
    /\ flowCursor = [f \in Flows |-> 0]
    /\ upstream \in { [id \in AccountIds |-> kind] : kind \in {"ok", "quota"} }
    /\ SideIdle
    /\ steps = 0
    /\ last = [op |-> "none", model |-> "", history |-> <<>>]

RoutedCompletionStep ==
    \E model \in Models, config \in Configs :
        RouterStep /\ createRoutedCompletion(model, config)

NextResolve == RoutedCompletionStep \/ RouterTickStep

SpecResolve == InitResolve /\ [][NextResolve]_vars

----------------------------------------------------------------------------
(* The routed call just completed *)

FlowCall == last.op = "routeFlow"

RoutedCall == last.op \in {"routeFlow", "routeAccount"}

(* The chain the completed call ran over. *)
CallEntries == IF FlowCall THEN FlowEntries(last.flow) ELSE AccountRoute

(* The account of chain position i (0-based) of the completed call. *)
EntryAccount(i) == CallEntries[i + 1].accountId

(* How the upstream answered for position i when the call started. *)
AnsweredAt(i) == Response(last.upstreamAt[EntryAccount(i)]).statusCode

(* Whether the selector reported position i rate-limited when the call started. *)
LimitedBefore(i) == limitedAt(last.before[EntryAccount(i)], last.at)

Attempted(i) == \E k \in 1..Len(last.order) : last.order[k] = i

(* C1: in a flow whose entry 0 keeps failing with a quota error while the   *)
(* later entries succeed, the first call attempts [0,1] and records index 1 *)
(* as sticky, and every later call attempts entry 1 only.  In general a     *)
(* call starts at the sticky index whenever that account is not             *)
(* rate-limited, and a success records its position as the sticky index.    *)
C1_StickySkipsHead ==
    FlowCall =>
        /\ ( /\ AnsweredAt(0) = 429
             /\ \A i \in 1..(ChainLen - 1) : AnsweredAt(i) = 200 /\ ~LimitedBefore(i) )
           => /\ (Len(last.history) = 1 /\ ~LimitedBefore(0))
                    => /\ last.order = <<0, 1>>
                       /\ sticky[last.flow] = [lastIndex |-> 1, lastAccountId |-> EntryAccount(1)]
              /\ (Len(last.history) > 1 /\ last.history[1] = <<0, 1>>)
                    => last.order = <<1>>
        /\ ( /\ last.stickyBefore[last.flow] # NoSticky
             /\ ~LimitedBefore(last.stickyBefore[last.flow].lastIndex) )
           => last.order[1] = last.stickyBefore[last.flow].lastIndex
        /\ last.outcome = "ok"
           => sticky[last.flow] = [lastIndex |-> last.index,
                                   lastAccountId |-> EntryAccount(last.index)]

C1_Witness ==
    /\ FlowCall
    /\ AnsweredAt(0) = 429
    /\ last.history = << <<0, 1>>, <<1>>, <<1>> >>

(* C2: when the sticky entry answers with a quota error and the following   *)
(* entry is usable, the call attempts the sticky entry once, then the       *)
(* following entry, records that one as the sticky index and attempts no    *)
(* earlier entry; successive calls visit [0,1], [1,2], then [2].            *)
C2_ProbeThenAdvance ==
    FlowCall =>
        LET c == last.stickyBefore[last.flow]
        IN  /\ ( /\ c # NoSticky
                 /\ c.lastIndex < ChainLen - 1
                 /\ ~LimitedBefore(c.lastIndex)
                 /\ AnsweredAt(c.lastIndex) = 429
                 /\ AnsweredAt(c.lastIndex + 1) = 200
                 /\ ~LimitedBefore(c.lastIndex + 1) )
               => /\ last.order = <<c.lastIndex, c.lastIndex + 1>>
                  /\ sticky[last.flow] = [lastIndex |-> c.lastIndex + 1,
                                          lastAccountId |-> EntryAccount(c.lastIndex + 1)]
            /\ ( /\ Len(last.history) = 3
                 /\ last.history[1] = <<0, 1>>
                 /\ last.history[2] = <<1, 2>>
                 /\ AnsweredAt(2) = 200 )
               => last.order = <<2>>
            /\ (last.outcome = "ok" /\ Len(last.order) > 1)
               => sticky[last.flow].lastIndex = last.order[Len(last.order)]

C2_Witness ==
    /\ FlowCall
    /\ last.history = << <<0, 1>>, <<1, 2>>, <<2>> >>
    /\ sticky[last.flow].lastIndex = 2

(* C3: in flow routing and in account routing, an attempted entry that      *)
(* answers 404 or 403 is the last attempt of the call, the call raises      *)
(* that status, the entry's account is not marked and its rate-limit state  *)
(* is as before; when it is the first attempt, it is the only one and no    *)
(* account changes at all.                                                  *)
C3_HardErrorNoRotation ==
    RoutedCall =>
        \A k \in 1..Len(last.order) :
            AnsweredAt(last.order[k]) \in {403, 404} =>
                /\ k = Len(last.order)
                /\ last.outcome = "error"
                /\ last.statusCode = AnsweredAt(last.order[k])
                /\ \A m \in 1..Len(last.marks) : last.marks[m] # EntryAccount(last.order[k])
                /\ objs[EntryAccount(last.order[k])] = last.before[EntryAccount(last.order[k])]
                /\ k = 1 => (last.marks = <<>> /\ objs = last.before)
                /\ FlowCall => sticky = last.stickyBefore

C3_Witness ==
    /\ last.op = "routeAccount"
    /\ last.order = <<0>>
    /\ last.statusCode = 403
    /\ last.history = << <<0>> >>
    /\ \E i \in 1..(ChainLen - 1) : AnsweredAt(i) = 200 /\ ~LimitedBefore(i)

(* C4: a call attempts entries one at a time in chain order (from its       *)
(* start, around the chain), each at most once, so at most chain-length     *)
(* attempts; every attempt before the last failed with a rate-limit error   *)
(* and was marked; a success ends the call; and a rate-limit error is       *)
(* raised only when every entry of the chain has failed: attempted and      *)
(* failed in this call, or reported rate-limited by the selector.           *)
C4_RateLimitFailover ==
    RoutedCall =>
        /\ Len(last.order) <= ChainLen
        /\ \A k \in 1..(Len(last.order) - 1) :
              /\ AnsweredAt(last.order[k]) = 429
              /\ (last.order[k + 1] - last.order[1]) % ChainLen
                     > (last.order[k] - last.order[1]) % ChainLen
              /\ \A i \in 0..(ChainLen - 1) :
                    ( /\ (i - last.order[1]) % ChainLen > (last.order[k] - last.order[1]) % ChainLen
                      /\ (i - last.order[1]) % ChainLen
                             < (last.order[k + 1] - last.order[1]) % ChainLen )
                    => LimitedBefore(i)
        /\ last.outcome = "ok"
              <=> (last.order # <<>> /\ AnsweredAt(last.order[Len(last.order)]) = 200)
        /\ (last.outcome = "error" /\ last.statusCode = 429)
              => \A i \in 0..(ChainLen - 1) :
                    \/ Attempted(i) /\ AnsweredAt(i) = 429
                    \/ LimitedBefore(i)

C4_Witness ==
    /\ FlowCall
    /\ last.outcome = "error"
    /\ last.statusCode = 429
    /\ Len(last.order) = ChainLen
    /\ last.order[1] = 1

(* C5: when every entry of the flow is reported rate-limited, the call      *)
(* makes exactly one attempt, at the entry of the flow's raw positional     *)
(* cursor: entry 0 for a flow that has not been used before.                *)
C5_AllLimitedFallback ==
    (FlowCall /\ \A i \in 0..(ChainLen - 1) : LimitedBefore(i)) =>
        /\ Len(last.order) = 1
        /\ last.order[1] = last.cursorBefore[last.flow] % ChainLen
        /\ Len(last.history) = 1 => last.order = <<0>>

C5_Witness ==
    /\ FlowCall
    /\ \A i \in 0..(ChainLen - 1) : LimitedBefore(i)
    /\ Len(last.history) = 1
    /\ last.order = <<0>>
    /\ last.outcome = "ok"

(* C19: a request whose model names no flow and has no account-routing     *)
(* entries, configured or auto-expanded, is refused with a 400 whose       *)
(* message names the model; nothing is attempted upstream and neither the  *)
(* accounts nor the cursors change, whether or not the model is official.  *)
C19_UnroutedModel ==
    [][ \A model \in Models, config \in Configs :
          (/\ FlowFor(model, config) = ""
           /\ RoutingEntries(model, config) = <<>>
           /\ steps' = steps + 1
           /\ last'.model = model
           /\ createRoutedCompletion(model, config))
             => /\ last'.op = "routeError"
                /\ last'.statusCode = 400
                /\ last'.message = <<"No account routing configured for model", model>>
                /\ last'.order = <<>>
                /\ UNCHANGED <<objs, upstream, sticky, flowCursor>> ]_vars

C19_Witness ==
    /\ last.op = "routeError"
    /\ last.model = "gpt-5.2-new"
    /\ last.message = <<"No account routing configured for model", "gpt-5.2-new">>
    /\ last.history # <<>>
    /\ \E id \in AccountIds : upstream[id] = "ok" /\ ~limitedAt(objs[id], now)

(* C20: a routed call in which every attempt failed raises the status and  *)
(* body of the attempt made last.                                          *)
C20_LastAttemptError ==
    (RoutedCall /\ last.outcome = "error" /\ last.order # <<>>) =>
        LET res == Response(last.upstreamAt[EntryAccount(last.order[Len(last.order)])])
        IN  /\ last.statusCode = res.statusCode
            /\ last.body = res.body

C20_Witness ==
    /\ RoutedCall
    /\ last.outcome = "error"
    /\ Len(last.order) = Len(CallEntries)
    /\ AnsweredAt(last.order[1]) # last.statusCode
    /\ last.statusCode = 403

(* C21: a request whose model names a flow (by the flow's name, behind the *)
(* route: prefix, or as the active flow) is executed by flow routing over  *)
(* that flow, also when the same id has account-routing entries; a request *)
(* executed by account routing names no flow.                              *)
C21_FlowBeforeAccount ==
    [][ \A model \in Models, config \in Configs :
          (steps' = steps + 1 /\ last'.model = model /\ createRoutedCompletion(model, config)) =>
             /\ FlowFor(model, config) # "" =>
                    /\ last'.op = "routeFlow"
                    /\ last'.flow = FlowFor(model, config)
             /\ last'.op = "routeAccount" =>
                    /\ FlowFor(model, config) = ""
                    /\ RoutingEntries(model, config) # <<>> ]_vars

C21_Witness ==
    /\ last.op = "routeFlow"
    /\ last.model \in OfficialModels
    /\ \A config \in Configs : RoutingEntries(last.model, config) # <<>>
    /\ last.order # <<>>

====
